---------------------------- MODULE Spec2Model ----------------------------
(***************************************************************************)
(* CollAgent: the multi-phase search-and-extract agent loop.               *)
(*                                                                         *)
(* The model follows src/collagent/base.py (CollAgentBase), core.py        *)
(* (CollAgentGoogle), openai_agent.py (CollAgentOpenAI) and streaming.py   *)
(* (StreamingConsole).  Thread 0 is the caller's thread; threads 1..N are  *)
(* the institution tasks of search_broad's ThreadPoolExecutor.             *)
(***************************************************************************)
EXTENDS Integers, Sequences, FiniteSets, TLC

VARIABLES
    entry,                  \* which entry point this run exercises
    cfg,                    \* agent configuration fixed at construction
    arg,                    \* arguments of the entry call
    env,                    \* what the mocked backend may still answer
    model_name,             \* self.model_name
    client,                 \* self.client
    collaborators,          \* self.collaborators
    searched_institutions,  \* self.searched_institutions
    collaborators_lock,     \* holder of self._collaborators_lock, or Free
    console,                \* what the output console has received
    pc,                     \* control position of every thread
    drv,                    \* frame of the research driver of every thread
    ext,                    \* frame of the extraction loop of every thread
    srch,                   \* frame of search() of every thread
    broad,                  \* locals of search_broad and its thread pool
    ret,                    \* value returned to the caller of the entry point
    err,                    \* last exception handed to _handle_api_error
    hist                    \* audit counters (observation only)

vars == << entry, cfg, arg, env, model_name, client, collaborators,
           searched_institutions, collaborators_lock, console, pc, drv, ext,
           srch, broad, ret, err, hist >>

(***************************************************************************)
(* Bounds of the model.                                                    *)
(***************************************************************************)
MaxFrags == 2          \* fragments concatenated into one exception string
MaxInst == 2           \* largest max_institutions of a run with a talkative backend
MaxPoolInst == 6       \* institutions of the run that fills the thread pool
MaxSaves == 2          \* save_collaborator calls the backend makes in a run
MaxErrors == 1         \* provider exceptions the backend raises in a run
MaxToolRounds == 2     \* tool-call responses the backend gives in a run
MaxEmpty == 1          \* empty responses the backend gives in a run
MaxCallsPerResp == 2   \* tool calls carried by one response
MaxTurnsArg == 3       \* largest max_turns handed to a research driver
MaxScript == 6         \* responses in a scripted run of an extraction loop
MaxCollabs == 3        \* records in the collection a report is made of

(***************************************************************************)
(* Strings are sequences of one-character strings, so that lower-casing    *)
(* and substring search are computed and not assumed.                      *)
(***************************************************************************)
UpperChars == << "A","B","C","D","E","F","G","H","I","J","K","L","M",
                 "N","O","P","Q","R","S","T","U","V","W","X","Y","Z" >>
LowerChars == << "a","b","c","d","e","f","g","h","i","j","k","l","m",
                 "n","o","p","q","r","s","t","u","v","w","x","y","z" >>

LowerChar(c) ==
    IF \E i \in 1..26 : UpperChars[i] = c
    THEN LowerChars[CHOOSE i \in 1..26 : UpperChars[i] = c] ELSE c

UpperChar(c) ==
    IF \E i \in 1..26 : LowerChars[i] = c
    THEN UpperChars[CHOOSE i \in 1..26 : LowerChars[i] = c] ELSE c

\* str.lower()
lower(s) == [i \in 1..Len(s) |-> LowerChar(s[i])]

\* str.upper()
upper(s) == [i \in 1..Len(s) |-> UpperChar(s[i])]

\* the Python test `p in s` on strings
IsSubstring(p, s) ==
    \E k \in 0..(Len(s) - Len(p)) : \A j \in 1..Len(p) : s[k + j] = p[j]

\* CollAgentBase.FATAL_ERROR_PATTERNS, in insertion order
FATAL_ERROR_PATTERNS ==
   <<
      [pattern |-> <<"i", "n", "s", "u", "f", "f", "i", "c", "i", "e", "n", "t", "_", "q", "u", "o", "t", "a">>,
       code |-> "insufficient_quota", message |-> "API quota exceeded",
       help_url |-> "https://platform.openai.com/account/billing"],
      [pattern |-> <<"i", "n", "v", "a", "l", "i", "d", "_", "a", "p", "i", "_", "k", "e", "y">>,
       code |-> "invalid_api_key", message |-> "Invalid API key",
       help_url |-> "https://platform.openai.com/api-keys"],
      [pattern |-> <<"r", "a", "t", "e", "_", "l", "i", "m", "i", "t", "_", "e", "x", "c", "e", "e", "d", "e", "d">>,
       code |-> "rate_limit_exceeded", message |-> "Rate limit exceeded",
       help_url |-> "None"],
      [pattern |-> <<"R", "E", "S", "O", "U", "R", "C", "E", "_", "E", "X", "H", "A", "U", "S", "T", "E", "D">>,
       code |-> "RESOURCE_EXHAUSTED", message |-> "API quota exhausted",
       help_url |-> "https://console.cloud.google.com/billing"],
      [pattern |-> <<"I", "N", "V", "A", "L", "I", "D", "_", "A", "R", "G", "U", "M", "E", "N", "T">>,
       code |-> "INVALID_ARGUMENT", message |-> "Invalid API configuration",
       help_url |-> "None"],
      [pattern |-> <<"P", "E", "R", "M", "I", "S", "S", "I", "O", "N", "_", "D", "E", "N", "I", "E", "D">>,
       code |-> "PERMISSION_DENIED", message |-> "API permission denied",
       help_url |-> "None"],
      [pattern |-> <<"U", "N", "A", "U", "T", "H", "E", "N", "T", "I", "C", "A", "T", "E", "D">>,
       code |-> "UNAUTHENTICATED", message |-> "Invalid API key",
       help_url |-> "https://aistudio.google.com/apikey"],
      [pattern |-> <<"4", "0", "1">>,
       code |-> "401", message |-> "Authentication failed - check your API key",
       help_url |-> "None"],
      [pattern |-> <<"4", "0", "3">>,
       code |-> "403", message |-> "Access forbidden - check API permissions",
       help_url |-> "None"],
      [pattern |-> <<"4", "2", "9">>,
       code |-> "429", message |-> "Too many requests - quota or rate limit exceeded",
       help_url |-> "None"]
   >>

\* a plausible slip: the pattern is compared as written, only the error
\* string is lower-cased
PatternMatchesCaseSlip(p, error_str) == IsSubstring(p, lower(error_str))

\* `pattern.lower() in error_str.lower()`; lower() keeps the length, and a
\* pattern longer than the string is found nowhere in it
PatternMatches(p, error_str) ==
    Len(p) <= Len(error_str) /\ IsSubstring(lower(p), lower(error_str))

\* the `for pattern, ... in FATAL_ERROR_PATTERNS.items()` loop from entry i
\* on: the index of the first pattern that matches, 0 when none does
RECURSIVE FirstFatalPattern(_, _)
FirstFatalPattern(error_str, i) ==
    IF i > Len(FATAL_ERROR_PATTERNS) THEN 0
    ELSE IF PatternMatches(FATAL_ERROR_PATTERNS[i].pattern, error_str) THEN i
    ELSE FirstFatalPattern(error_str, i + 1)

\* what the console holds: counters of the messages by kind and the last
\* fatal notification
NoNote == [code |-> "None", message |-> "None", help_url |-> "None"]
EmptyConsole ==
    [fatal_error |-> 0,     \* StreamingConsole.fatal_error messages
     fatal_lines |-> 0,     \* "[bold red]{message}" lines of the CLI fallback
     help_lines |-> 0,      \* "More info: {help_url}" lines of the CLI fallback
     api_error |-> 0,       \* "API Error in {context}: ..." log lines
     search_error |-> 0,    \* "Search error: ..." lines of the join
     completed |-> 0,       \* "Completed: {inst_name}" lines of the join
     note |-> NoNote]

\* StreamingConsole.fatal_error: one queue message of type fatal_error
fatal_error(con, message, error_code, help_url) ==
    [con EXCEPT !.fatal_error = @ + 1,
                !.note = [code |-> error_code, message |-> message,
                          help_url |-> help_url]]

\* a slip: the fatal branch does not return and falls through to the plain
\* log line
ConsoleAfterErrorFallThrough(con, modal, i) ==
    IF i > 0
    THEN LET p == FATAL_ERROR_PATTERNS[i] IN
         [fatal_error(con, p.message, p.code, p.help_url)
            EXCEPT !.api_error = @ + 1]
    ELSE [con EXCEPT !.api_error = @ + 1]

\* the console after _handle_api_error(exception, context), where i is the
\* index of the first matching pattern (0: none)
ConsoleAfterError(con, modal, i) ==
    IF i > 0
    THEN LET p == FATAL_ERROR_PATTERNS[i] IN
         IF modal
         THEN fatal_error(con, p.message, p.code, p.help_url)
         ELSE [con EXCEPT !.fatal_lines = @ + 1,
                          !.help_lines = IF p.help_url # "None" THEN @ + 1 ELSE @,
                          !.note = [code |-> p.code, message |-> p.message,
                                    help_url |-> p.help_url]]
    ELSE [con EXCEPT !.api_error = @ + 1]

\* the value returned by _handle_api_error(exception, context), given the
\* index of the first matching pattern
IsFatal(i) == i > 0

(***************************************************************************)
(* Threads and texts.                                                      *)
(***************************************************************************)
NTasks == IF MaxInst > MaxPoolInst THEN MaxInst ELSE MaxPoolInst
Tasks == 1..NTasks
Threads == 0..NTasks
Free == NTasks + 1      \* the lock value that is no thread: nobody holds it

\* the stop phrase the prompts ask the model to end with
SEARCH_COMPLETE == <<"S", "E", "A", "R", "C", "H", " ", "C", "O", "M", "P", "L", "E", "T", "E">>

\* closing words a response text can have: none worth a look, the stop phrase
\* as the prompts spell it, the stop phrase in another letter case, and a
\* near miss without the space
Plain == <<"o", "k", ".">>
SaidUpper == SEARCH_COMPLETE
SaidMixed == <<"S", "e", "a", "r", "c", "h", " ", "c", "o", "m", "p", "l", "e", "t", "e", ".">>
NearMiss == <<"S", "E", "A", "R", "C", "H", "C", "O", "M", "P", "L", "E", "T", "E">>
Blank == <<" ", " ", " ">>

\* A response text: its length once <think> blocks are stripped, its closing
\* words, whether it is white space only.
Text(n, w, b) == [len |-> n, words |-> w, blank |-> b]
NoText == Text(0, << >>, FALSE)
AllTexts ==
    { Text(1000, Plain, FALSE), Text(300, Plain, FALSE), Text(200, Plain, FALSE),
      Text(400, SaidUpper, FALSE), Text(400, SaidMixed, FALSE),
      Text(400, NearMiss, FALSE), Text(3, Blank, TRUE) }

RECURSIVE SumLen(_)
SumLen(texts) ==
    IF texts = << >> THEN 0 ELSE Head(texts).len + SumLen(Tail(texts))

\* "\n\n".join(accumulated_text): the parts in order and the length of the
\* joined string
Join(texts) ==
    [parts |-> texts,
     len |-> IF texts = << >> THEN 0 ELSE SumLen(texts) + 2 * (Len(texts) - 1)]
EmptyString == Join(<< >>)

\* a slip: the stop phrase is looked for in the text as it came, so only the
\* upper-case spelling is found
HasStopPhraseCaseSensitive(text) == IsSubstring(SEARCH_COMPLETE, text.words)

\* `"SEARCH COMPLETE" in response_text.upper()`
HasStopPhrase(text) == IsSubstring(SEARCH_COMPLETE, upper(text.words))

\* a slip: the threshold test includes the boundary, so a text of exactly
\* 0.3 x the previous length stops the loop
DiminishingReturnsInclusive(d, text) == d.last > 0 /\ 10 * text.len <= 3 * d.last

\* `len(response_text) < last_response_length * 0.3`
DiminishingReturns(d, text) == d.last > 0 /\ 10 * text.len < 3 * d.last

(***************************************************************************)
(* The research drivers.                                                   *)
(***************************************************************************)
ToolVariants == {"tool_cc", "tool_genai"}

\* which driver phase1_research / discover_institutions dispatch to
Variant(c) ==
    IF ~c.tool THEN (IF c.agent = "google" THEN "grounded" ELSE "web")
    ELSE IF c.agent = "google" /\ ~c.sclient THEN "tool_genai"
    ELSE "tool_cc"

NoDrv ==
    [variant |-> "none", purpose |-> "none", max_turns |-> 0, turn |-> 0,
     text_turns |-> 0, search_rounds |-> 0, did_search |-> FALSE,
     acc |-> << >>, last |-> 0, pending |-> 0, calls |-> 0, synth |-> 0,
     broke |-> "no", snap |-> << >>, result |-> EmptyString,
     \* `messages` of the Chat Completions loop, without the system and
     \* user messages: the assistant message of call `at` with its n tool
     \* calls, the tool message that answers tool call n of call `at`; the
     \* list is kept where env.trace asks for it and influences no step
     msgs |-> << >>,
     seen |-> [n |-> 0, kind |-> "none", text |-> NoText, tools |-> 0,
               content |-> FALSE, finish |-> "none", tool_error |-> FALSE]]

\* a slip: the loop tests are off by one and admit one more iteration
LoopCondExtraTurn(d) ==
    IF d.variant \in ToolVariants
    THEN d.text_turns <= d.max_turns /\ d.search_rounds <= d.max_turns * 3
    ELSE d.turn <= d.max_turns

\* the loop conditions: `while turn < max_turns`, `for turn in range(1,
\* max_turns + 1)` and `while text_turns < max_turns and search_rounds <
\* max_search_rounds` with max_search_rounds = max_turns * 3
LoopCond(d) ==
    IF d.variant \in ToolVariants
    THEN d.text_turns < d.max_turns /\ d.search_rounds < d.max_turns * 3
    ELSE d.turn < d.max_turns

\* Each step operator takes the driver's locals and one response and gives
\* the new locals with the way the iteration ends: "continue" (back to the
\* loop test), "break", "abort" (return ""), "tools" (search-tool calls to
\* execute first) or "raise" (an exception leaves the driver).
Outcome(d, how) == [d |-> d, how |-> how]

\* the stop checks shared by the text branch of every driver
TextChecks(d, text) ==
    IF HasStopPhrase(text) THEN Outcome(d, "break")
    ELSE IF DiminishingReturns(d, text) THEN Outcome(d, "break")
    ELSE Outcome([d EXCEPT !.last = text.len], "continue")

\* a slip: a transient error is treated like a fatal one and the text
\* gathered so far is dropped
OnDriverErrorAbort(d, r) ==
    Outcome([d EXCEPT !.broke = IF r.fatal THEN "fatal" ELSE "transient",
                      !.snap = d.acc], "abort")

\* `except Exception as e: if self._handle_api_error(e, ...): return ""` and
\* `break` otherwise, the same in every driver; `snap` keeps what was
\* accumulated when the transient error struck
OnDriverError(d, r) ==
    IF r.fatal THEN Outcome([d EXCEPT !.broke = "fatal"], "abort")
    ELSE Outcome([d EXCEPT !.broke = "transient", !.snap = d.acc], "break")

\* CollAgentGoogle._run_grounded_search, one loop iteration
run_grounded_search(d, r) ==
    IF r.kind = "error" THEN OnDriverError(d, r)
    ELSE LET d1 == IF r.text.len > 0 THEN [d EXCEPT !.acc = Append(@, r.text)]
                   ELSE d
             o == IF r.text.len > 0 THEN TextChecks(d1, r.text)
                  ELSE Outcome(d1, "continue")
         IN  IF o.how = "break" THEN o
             ELSE IF r.content THEN o
             ELSE Outcome(o.d, "break")

\* CollAgentOpenAI._run_web_search, one loop iteration
run_web_search(d, r) ==
    IF r.kind = "error" THEN OnDriverError(d, r)
    ELSE IF r.kind = "bad" THEN Outcome(d, "raise")
    ELSE IF r.text.len > 0
         THEN TextChecks([d EXCEPT !.acc = Append(@, r.text)], r.text)
         ELSE IF d.acc # << >> THEN Outcome(d, "break")
              ELSE Outcome(d, "continue")

\* a slip: a text that comes with tool calls is treated as a text turn
run_tool_based_searchChecksToolText(d, r) ==
    IF r.kind = "error" THEN OnDriverError(d, r)
    ELSE IF r.kind = "bad" THEN Outcome(d, "raise")
    ELSE LET d0 == IF env.trace
                   THEN [d EXCEPT !.msgs = Append(@, [role |-> "assistant",
                                                      at |-> d.calls,
                                                      n |-> r.tools])]
                   ELSE d
             d1 == IF r.text.len > 0 /\ ~r.text.blank
                   THEN [d0 EXCEPT !.acc = Append(@, r.text)] ELSE d0
             o == IF r.text.len > 0
                  THEN TextChecks([d1 EXCEPT !.text_turns = @ + 1], r.text)
                  ELSE IF d1.acc # << >> /\ r.tools = 0 THEN Outcome(d1, "break")
                       ELSE Outcome(d1, "continue")
         IN  IF o.how = "break" THEN o
             ELSE IF r.tools > 0
             THEN Outcome([o.d EXCEPT !.did_search = TRUE,
                                      !.search_rounds = @ + 1,
                                      !.pending = r.tools], "tools")
             ELSE IF r.finish = "stop" /\ o.d.acc # << >>
                  THEN Outcome(o.d, "break")
             ELSE o

\* CollAgentBase._run_tool_based_search, one loop iteration
run_tool_based_search(d, r) ==
    IF r.kind = "error" THEN OnDriverError(d, r)
    ELSE IF r.kind = "bad" THEN Outcome(d, "raise")
    ELSE LET d0 == IF env.trace
                   THEN [d EXCEPT !.msgs = Append(@, [role |-> "assistant",
                                                      at |-> d.calls,
                                                      n |-> r.tools])]
                   ELSE d
             d1 == IF r.text.len > 0 /\ ~r.text.blank
                   THEN [d0 EXCEPT !.acc = Append(@, r.text)] ELSE d0
         IN  IF r.tools > 0
             THEN Outcome([d1 EXCEPT !.did_search = TRUE,
                                     !.search_rounds = @ + 1,
                                     !.pending = r.tools], "tools")
             ELSE LET o == IF r.text.len > 0
                           THEN TextChecks([d1 EXCEPT !.text_turns = @ + 1],
                                           r.text)
                           ELSE IF d1.acc # << >> THEN Outcome(d1, "break")
                                ELSE Outcome(d1, "continue")
                  IN  IF o.how = "break" THEN o
                      ELSE IF r.finish = "stop" /\ o.d.acc # << >>
                           THEN Outcome(o.d, "break")
                      ELSE o

\* a slip: a round of tool calls is charged to the text-turn budget
run_tool_based_search_genaiChargesToolRound(d, r) ==
    IF r.kind = "error" THEN OnDriverError(d, r)
    ELSE LET d1 == IF r.text.len > 0 THEN [d EXCEPT !.acc = Append(@, r.text)]
                   ELSE d
         IN  IF r.tools > 0
             THEN Outcome([d1 EXCEPT !.did_search = TRUE,
                                     !.text_turns = @ + 1,
                                     !.pending = r.tools], "tools")
             ELSE IF r.text.len > 0
                  THEN TextChecks([d1 EXCEPT !.text_turns = @ + 1], r.text)
                  ELSE IF d1.acc # << >> THEN Outcome(d1, "break")
                       ELSE Outcome(d1, "continue")

\* CollAgentGoogle._run_tool_based_search_genai, one loop iteration
run_tool_based_search_genai(d, r) ==
    IF r.kind = "error" THEN OnDriverError(d, r)
    ELSE LET d1 == IF r.text.len > 0 THEN [d EXCEPT !.acc = Append(@, r.text)]
                   ELSE d
         IN  IF r.tools > 0
             THEN Outcome([d1 EXCEPT !.did_search = TRUE,
                                     !.search_rounds = @ + 1,
                                     !.pending = r.tools], "tools")
             ELSE IF r.text.len > 0
                  THEN TextChecks([d1 EXCEPT !.text_turns = @ + 1], r.text)
                  ELSE IF d1.acc # << >> THEN Outcome(d1, "break")
                       ELSE Outcome(d1, "continue")

DriverStep(d, r) ==
    CASE d.variant = "grounded" -> run_grounded_search(d, r)
      [] d.variant = "web" -> run_web_search(d, r)
      [] d.variant = "tool_cc" -> run_tool_based_search(d, r)
      [] OTHER -> run_tool_based_search_genai(d, r)

\* a slip: the synthesis call is made whenever no text was accumulated,
\* searches or not
NeedsSynthesisWithoutSearch(d) ==
    d.variant \in ToolVariants /\ d.acc = << >>

\* `if not accumulated_text and did_search:` after the loop of the tool-based
\* drivers
NeedsSynthesis(d) ==
    d.variant \in ToolVariants /\ d.acc = << >> /\ d.did_search

\* the text appended by the synthesis call: the Chat Completions variant
\* keeps it when `response_text.strip()` is non-empty, the genai variant
\* when it is non-empty
SynthesisKeeps(d, r) ==
    /\ r.kind = "ok"
    /\ r.text.len > 0
    /\ (d.variant = "tool_cc" => ~r.text.blank)

(***************************************************************************)
(* The mocked backend.  A response is what one provider call gives back:   *)
(* a well-formed answer ("ok"), an exception ("error") or an answer the    *)
(* client library returns but the driver cannot read ("bad": no choices,   *)
(* no output list).                                                        *)
(***************************************************************************)
S_quota == <<"i", "n", "s", "u", "f", "f", "i", "c", "i", "e", "n", "t", "_", "q", "u", "o", "t", "a">>
S_timeout == <<"t", "i", "m", "e", "o", "u", "t">>
NoError == << >>

Resp(kind, text, tools, content, finish, error) ==
    [kind |-> kind, text |-> text, tools |-> tools, content |-> content,
     finish |-> finish, error |-> error, matched |-> 0, fatal |-> FALSE]

\* a response once `except Exception as e` has called _handle_api_error(e,
\* context): `matched` is the pattern it stopped at, `fatal` the value it
\* returned
Handled(r) ==
    IF r.kind # "error" THEN r
    ELSE LET i == FirstFatalPattern(r.error, 1)
         IN  [r EXCEPT !.matched = i, !.fatal = IsFatal(i)]

\* the answers a research call of driver frame d can get
DrvResponses(d) ==
    LET fin == IF d.variant = "tool_cc" THEN env.finishes ELSE {"stop"}
        cont == IF d.variant = "grounded" THEN {TRUE, FALSE} ELSE {TRUE}
    IN  { Resp("ok", x, 0, TRUE, f, NoError) :
            x \in env.texts[d.purpose], f \in fin }
        \cup (IF env.empties > 0
              THEN { Resp("ok", NoText, 0, c, f, NoError) : c \in cont, f \in fin }
              ELSE {})
        \cup (IF d.variant \in ToolVariants /\ env.tools > 0
              THEN { Resp("ok", x, n, TRUE, "tool_calls", NoError) :
                       x \in env.tooltexts, n \in 1..MaxCallsPerResp }
              ELSE {})
        \cup (IF env.errors > 0
              THEN { Resp("error", NoText, 0, FALSE, "stop", e) :
                       e \in env.errset }
              ELSE {})
        \cup (IF env.bad > 0 /\ d.variant \in {"web", "tool_cc"}
              THEN { Resp("bad", NoText, 0, FALSE, "stop", NoError) }
              ELSE {})

\* the answers the final no-tools synthesis call can get
SynthResponses(d) ==
    { Resp("ok", x, 0, TRUE, "stop", NoError) : x \in env.texts[d.purpose] }
    \cup (IF env.empties > 0
          THEN { Resp("ok", NoText, 0, TRUE, "stop", NoError) } ELSE {})
    \cup (IF env.errors > 0
          THEN { Resp("error", NoText, 0, FALSE, "stop", e) : e \in env.errset }
          ELSE {})

\* the backend's budget after it gave response r
Consume(e, r) ==
    [e EXCEPT !.errors = IF r.kind = "error" THEN @ - 1 ELSE @,
              !.bad = IF r.kind = "bad" THEN @ - 1 ELSE @,
              !.empties = IF r.kind = "ok" /\ r.tools = 0 /\ r.text = NoText
                          THEN @ - 1 ELSE @,
              !.tools = IF r.kind = "ok" /\ r.tools > 0 THEN @ - 1 ELSE @]

(***************************************************************************)
(* Thread-level steps of the research drivers.  A step runs a thread from  *)
(* one blocking call (provider, search tool, lock) to the next.            *)
(***************************************************************************)
NoSrch == [active |-> FALSE, calls |-> 0, first |-> "none", phase2 |-> FALSE]

\* the driver's locals with a note of the response its latest provider call
\* got: `response` as the driver reads it, and the number of the call
Seen(d, r) ==
    [d EXCEPT !.seen = [n |-> d.calls, kind |-> r.kind, text |-> r.text,
                        tools |-> r.tools, content |-> r.content,
                        finish |-> r.finish, tool_error |-> FALSE]]

\* where a driver goes once an iteration ended in `how`
After(d, how) ==
    IF how = "continue" /\ LoopCond(d)
    THEN [pc |-> "drv_call",
          d |-> [d EXCEPT !.calls = @ + 1,
                          !.turn = IF d.variant \in ToolVariants THEN @ ELSE @ + 1]]
    ELSE IF how \in {"continue", "break"}
    THEN IF NeedsSynthesis(d)
         THEN [pc |-> "drv_synth", d |-> [d EXCEPT !.calls = @ + 1,
                                                   !.synth = @ + 1]]
         ELSE [pc |-> "drv_ret", d |-> [d EXCEPT !.result = Join(d.acc)]]
    ELSE IF how = "abort"
    THEN [pc |-> "drv_ret", d |-> [d EXCEPT !.result = EmptyString]]
    ELSE IF how = "tools"
    THEN [pc |-> "drv_tool", d |-> d]
    ELSE [pc |-> "raised", d |-> NoDrv]

\* a driver is entered: its locals are set and the loop test is made
EnterDriver(purpose, max_turns) ==
    After([NoDrv EXCEPT !.variant = Variant(cfg), !.purpose = purpose,
                        !.max_turns = max_turns], "continue")

\* the bookkeeping of search(): provider calls issued by this search call and
\* how its first call ended
SrchNote(s, r, nextpc) ==
    IF ~s.active THEN s
    ELSE [s EXCEPT
            !.first = IF @ # "pending" THEN @
                      ELSE IF r.kind = "error" /\ r.fatal THEN "fatal"
                      ELSE "other",
            !.calls = IF nextpc \in {"drv_call", "drv_synth", "ext_call"}
                      THEN @ + 1 ELSE @]

HistAfter(h, r) ==
    IF r.kind # "error" THEN h
    ELSE IF r.fatal THEN [h EXCEPT !.fatal = @ + 1]
    ELSE [h EXCEPT !.transient = @ + 1]

\* a provider call of the driver loop returns or raises
DrvResponse(t) ==
    /\ pc[t] = "drv_call"
    /\ \E r0 \in DrvResponses(drv[t]) : \E r \in {Handled(r0)} :
         LET o == DriverStep(Seen(drv[t], r), r)
             a == After(o.d, o.how)
         IN  /\ pc' = [pc EXCEPT ![t] = a.pc]
             /\ drv' = [drv EXCEPT ![t] = a.d]
             /\ env' = Consume(env, r)
             /\ console' = IF r.kind = "error"
                           THEN ConsoleAfterError(console, cfg.modal, r.matched)
                           ELSE console
             /\ srch' = [srch EXCEPT ![t] = IF a.pc = "raised" THEN NoSrch
                                            ELSE SrchNote(@, r, a.pc)]
             /\ hist' = HistAfter(hist, r)
    /\ UNCHANGED << entry, cfg, arg, model_name, client, collaborators,
                    searched_institutions, collaborators_lock, ext, broad, ret, err >>

\* a slip: a search that raises leaves no tool message
DrvToolReturnSkipsFailure(t) ==
    /\ pc[t] = "drv_tool"
    /\ \E failed \in env.searchfails :
       LET d == [drv[t] EXCEPT
                   !.pending = @ - 1,
                   !.seen.tool_error = failed,
                   !.msgs = IF drv[t].variant = "tool_cc" /\ env.trace /\ ~failed
                            THEN Append(@, [role |-> "tool",
                                            at |-> drv[t].seen.n,
                                            n |-> drv[t].seen.tools
                                                  - drv[t].pending + 1])
                            ELSE @]
           a == IF d.pending > 0 THEN [pc |-> "drv_tool", d |-> d]
                ELSE After(d, "continue")
       IN  /\ pc' = [pc EXCEPT ![t] = a.pc]
           /\ drv' = [drv EXCEPT ![t] = a.d]
           /\ srch' = [srch EXCEPT ![t] =
                          SrchNote(@, Resp("ok", NoText, 0, TRUE, "stop", NoError), a.pc)]
    /\ UNCHANGED << entry, cfg, arg, env, model_name, client, collaborators,
                    searched_institutions, collaborators_lock, console, ext,
                    broad, ret, err, hist >>

\* one search_tool.search(query) call returns or raises; either way a tool
\* result is fed back, and after the last one the loop test is made
DrvToolReturn(t) ==
    /\ pc[t] = "drv_tool"
    /\ \E failed \in env.searchfails :
       LET d == [drv[t] EXCEPT
                   !.pending = @ - 1,
                   !.seen.tool_error = failed,
                   !.msgs = IF drv[t].variant = "tool_cc" /\ env.trace
                            THEN Append(@, [role |-> "tool",
                                            at |-> drv[t].seen.n,
                                            n |-> drv[t].seen.tools
                                                  - drv[t].pending + 1])
                            ELSE @]
           a == IF d.pending > 0 THEN [pc |-> "drv_tool", d |-> d]
                ELSE After(d, "continue")
       IN  /\ pc' = [pc EXCEPT ![t] = a.pc]
           /\ drv' = [drv EXCEPT ![t] = a.d]
           /\ srch' = [srch EXCEPT ![t] =
                          SrchNote(@, Resp("ok", NoText, 0, TRUE, "stop", NoError), a.pc)]
    /\ UNCHANGED << entry, cfg, arg, env, model_name, client, collaborators,
                    searched_institutions, collaborators_lock, console, ext,
                    broad, ret, err, hist >>

\* the synthesis call returns or raises (`except Exception: pass`)
DrvSynthResponse(t) ==
    /\ pc[t] = "drv_synth"
    /\ \E r \in SynthResponses(drv[t]) :
         LET acc == IF SynthesisKeeps(drv[t], r)
                    THEN Append(drv[t].acc, r.text) ELSE drv[t].acc
         IN  /\ drv' = [drv EXCEPT ![t] = [Seen(drv[t], r) EXCEPT
                                                !.acc = acc,
                                                !.result = Join(acc)]]
             /\ env' = Consume(env, r)
    /\ pc' = [pc EXCEPT ![t] = "drv_ret"]
    /\ UNCHANGED << entry, cfg, arg, model_name, client, collaborators,
                    searched_institutions, collaborators_lock, console, ext,
                    srch, broad, ret, err, hist >>

(***************************************************************************)
(* The extraction loops.                                                   *)
(***************************************************************************)
ExtMaxTurns == 5       \* `max_turns: int = 5` of every extraction loop
fixedVars == << entry, cfg, arg >>

\* which loop phase2_extract / extract_institutions route to
Transport(c) ==
    IF c.agent = "google"
    THEN (IF c.pp \in {"openai_compatible", "openai"} THEN "cc" ELSE "genai")
    ELSE (IF c.pp = "openai_compatible" THEN "cc"
          ELSE IF c.pp = "google" THEN "genai"
          ELSE "responses")

\* the branches that swap self.model_name / self.client for the loop
Swaps(c) ==
    \/ c.agent = "google" /\ c.pp = "google"
    \/ c.agent = "openai" /\ c.pp = "openai"

\* the four statements before the `try`, in the order each method has them
SwapOrder(c, purpose) ==
    IF c.agent = "google" /\ purpose = "collab"
    THEN << "read_model", "write_model", "read_client", "write_client" >>
    ELSE << "read_model", "read_client", "write_model", "write_client" >>

\* The argument payload of a tool call, and what it decodes to: a JSON object
\* with a score, whose `scored` tells whether the score key is there; a
\* JSON value that is no object; a payload that is no JSON at all.
Dict(score) == [kind |-> "dict", score |-> score, scored |-> TRUE]
NonDict == [kind |-> "nondict", score |-> 0, scored |-> FALSE]
Garbled == [kind |-> "garbled", score |-> 0, scored |-> FALSE]

\* `{}`
EmptyObject == [kind |-> "dict", score |-> 0, scored |-> FALSE]

\* a slip: the JSONDecodeError is not caught and the payload goes on as it is
DecodeArgsUncaught(args) == args

\* `json.loads(tc.function.arguments) if tc.function.arguments else {}` with
\* `except json.JSONDecodeError: args = {}`; the genai loop has
\* `dict(fc.args) if fc.args else {}`
DecodeArgs(args) == IF args.kind = "garbled" THEN EmptyObject ELSE args

ToolCall(name, args) == [name |-> name, args |-> args]

NoCall == ToolCall("none", Dict(0))

NoExt ==
    [transport |-> "none", purpose |-> "none", swapped |-> FALSE, step |-> 0,
     orig_model |-> "none", orig_client |-> "none", turn |-> 0, calls |-> 0,
     items |-> << >>, pending |-> << >>, finished |-> FALSE, cur |-> NoCall,
     raising |-> FALSE,
     \* what the loop did, for the properties: the arguments on_save was
     \* called with, the `result` of the last tool call, the errors handed to
     \* _handle_api_error
     given |-> << >>, result |-> << >>, reported |-> << >>,
     \* `messages` of the Chat Completions loop, as in the driver's frame
     msgs |-> << >>]

ExtResp(kind, calls, error) ==
    [kind |-> kind, calls |-> calls, error |-> error, matched |-> 0,
     fatal |-> FALSE]

CountSaves(calls) ==
    Cardinality({ i \in 1..Len(calls) : calls[i].name = "save" })
CountNonDict(calls) ==
    Cardinality({ i \in 1..Len(calls) : calls[i].args.kind = "nondict" })

\* the tool calls the backend may put in an answer to extraction frame e
ExtToolCalls(e) ==
    { ToolCall(n, Dict(0)) : n \in env.names }
    \cup { ToolCall("save", Dict(sc)) : sc \in env.scores }
    \cup (IF e.transport \in {"cc", "responses"} /\ env.bad > 0
          THEN { ToolCall("save", NonDict) } ELSE {})
    \cup { ToolCall("save", a) :
             a \in { x \in env.payloads :
                       x.kind = "garbled" => e.transport \in {"cc", "responses"} } }

\* the answer a scripted backend gives to the n-th call; past the end of the
\* script it answers without tool calls
ScriptAt(script, n) ==
    IF n \in 1..Len(script) THEN script[n] ELSE ExtResp("ok", << >>, NoError)

\* the answers an extraction call of frame e can get
ExtResponses(e) ==
    IF env.script # << >> THEN { ScriptAt(env.script, e.calls) } ELSE
    { ExtResp("ok", << >>, NoError) }
    \cup { ExtResp("ok", cs, NoError) :
             cs \in { c \in UNION { [1..n -> ExtToolCalls(e)] :
                                      n \in 1..MaxCallsPerResp } :
                        /\ CountSaves(c) <= (IF e.purpose = "inst" THEN env.isaves
                                            ELSE env.saves)
                        /\ CountNonDict(c) <= env.bad } }
    \cup (IF env.errors > 0
          THEN { ExtResp("error", << >>, e1) : e1 \in env.errset }
          ELSE {})
    \cup (IF env.bad > 0 /\ e.transport \in {"cc", "responses"}
          THEN { ExtResp("bad", << >>, NoError) } ELSE {})

ConsumeExt(v, e, r) ==
    LET saves == CountSaves(r.calls)
    IN  IF v.script # << >> THEN v ELSE
        [v EXCEPT !.errors = IF r.kind = "error" THEN @ - 1 ELSE @,
                  !.bad = IF r.kind = "bad" THEN @ - 1
                          ELSE @ - CountNonDict(r.calls),
                  !.isaves = IF e.purpose = "inst" THEN @ - saves ELSE @,
                  !.saves = IF e.purpose = "inst" THEN @ ELSE @ - saves]

\* `return items`: through the `finally` when the branch swapped
ExtReturn(e) ==
    IF e.swapped THEN [pc |-> "restore", e |-> [e EXCEPT !.step = 1]]
    ELSE [pc |-> "ext_ret", e |-> e]

\* an exception leaves the loop: through the `finally` when the branch
\* swapped
ExtRaise(e) ==
    IF e.swapped
    THEN [pc |-> "restore", e |-> [e EXCEPT !.step = 1, !.raising = TRUE]]
    ELSE [pc |-> "raised", e |-> NoExt]

\* the next provider call of the loop, if the loop has one: `for turn in
\* range(max_turns)` with the call at the top (genai, Chat Completions), or
\* the submit of the tool outputs at the bottom (Responses)
ExtIssue(e) ==
    IF e.transport = "responses"
    THEN [pc |-> "ext_call", e |-> [e EXCEPT !.calls = @ + 1]]
    ELSE IF e.turn < ExtMaxTurns
    THEN [pc |-> "ext_call", e |-> [e EXCEPT !.calls = @ + 1, !.turn = @ + 1]]
    ELSE ExtReturn(e)

\* a slip: `if finished: break` inside the `for` over the round's calls
AfterToolCallBreaksOnFinish(e) ==
    IF e.finished THEN ExtReturn(e)
    ELSE IF e.pending # << >> THEN [pc |-> "ext_tc", e |-> e]
    ELSE ExtIssue(e)

\* after one tool call of the round is processed: its tool message is
\* appended (Chat Completions), then the next call of the round, or the
\* `if finished: break`, or the next turn
AfterToolCall(e) ==
    LET asked == e.msgs[CHOOSE k \in 1..Len(e.msgs) :
                          /\ e.msgs[k].role = "assistant"
                          /\ \A j \in (k + 1)..Len(e.msgs) :
                               e.msgs[j].role # "assistant"].n
        e1 == IF e.transport = "cc" /\ env.trace
              THEN [e EXCEPT !.msgs = Append(@, [role |-> "tool",
                                                 at |-> e.calls,
                                                 n |-> asked - Len(e.pending)])]
              ELSE e
    IN  IF e1.pending # << >> THEN [pc |-> "ext_tc", e |-> e1]
        ELSE IF e1.finished THEN ExtReturn(e1)
        ELSE ExtIssue(e1)

\* a slip: the error handler of the loop returns a fresh empty list
ExtStepErrorDropsItems(e, r) ==
    IF r.kind = "error"
    THEN ExtReturn([e EXCEPT !.reported = Append(@, r.error), !.items = << >>])
    ELSE IF e.transport = "responses" /\ e.turn >= ExtMaxTurns THEN ExtReturn(e)
    ELSE IF r.kind = "bad" THEN ExtRaise(e)
    ELSE LET e0 == IF e.transport = "cc" /\ env.trace
                   THEN [e EXCEPT !.msgs = Append(@, [role |-> "assistant",
                                                      at |-> e.calls,
                                                      n |-> Len(r.calls)])]
                   ELSE e
         IN  IF r.calls = << >> THEN ExtReturn(e0)
             ELSE [pc |-> "ext_tc",
                   e |-> [e0 EXCEPT !.pending = r.calls, !.finished = FALSE,
                                    !.turn = IF e.transport = "responses"
                                             THEN @ + 1 ELSE @]]

\* an extraction call returns or raises: up to the first tool call of the
\* round
ExtStep(e, r) ==
    IF r.kind = "error"
    THEN ExtReturn([e EXCEPT !.reported = Append(@, r.error)])
    ELSE IF e.transport = "responses" /\ e.turn >= ExtMaxTurns THEN ExtReturn(e)
    ELSE IF r.kind = "bad" THEN ExtRaise(e)
    ELSE LET e0 == IF e.transport = "cc" /\ env.trace
                   THEN [e EXCEPT !.msgs = Append(@, [role |-> "assistant",
                                                      at |-> e.calls,
                                                      n |-> Len(r.calls)])]
                   ELSE e
         IN  IF r.calls = << >> THEN ExtReturn(e0)
             ELSE [pc |-> "ext_tc",
                   e |-> [e0 EXCEPT !.pending = r.calls, !.finished = FALSE,
                                    !.turn = IF e.transport = "responses"
                                             THEN @ + 1 ELSE @]]

\* on_save(args) is entered
CallOnSave(e, args) == [e EXCEPT !.given = Append(@, args)]

\* a slip: the arguments go to items before on_save and again after it
SaveItemTwice(e, args) ==
    [e EXCEPT !.items = Append(Append(@, args), args), !.result = << "Saved" >>]

\* `display_name, score, result = on_save(args)` has returned;
\* `items.append(args)`
SaveItem(e, args) == [e EXCEPT !.items = Append(@, args), !.result = << "Saved" >>]

\* a slip: an unknown tool name ends the round like finish_extraction
OtherCallFinishes(e, tc) ==
    AfterToolCall([e EXCEPT !.finished = TRUE,
                            !.result = << "Unknown: ", tc.name >>])

\* the `else:` branch: `result = f"Unknown: {name}"`
OtherCall(e, tc) ==
    AfterToolCall([e EXCEPT !.result = << "Unknown: ", tc.name >>])

\* the body of `for tc in message.tool_calls:` for a decoded call tc, with
\* on_save run in one piece; on_save raises on arguments that are no dict
ProcessCall(e, tc) ==
    IF tc.name = "save"
    THEN (IF tc.args.kind # "dict" THEN ExtRaise(CallOnSave(e, tc.args))
          ELSE AfterToolCall(SaveItem(CallOnSave(e, tc.args), tc.args)))
    ELSE IF tc.name = "finish_extraction"
    THEN AfterToolCall([e EXCEPT !.finished = TRUE,
                                 !.result = << "Extraction complete" >>])
    ELSE OtherCall(e, tc)

\* the record on_save_collaborator appends: the decoded arguments, tagged
\* with the task and the number of the on_save call
Record(id, t, args) == [id |-> id, by |-> t, args |-> args]

\* a slip: an unsynchronised read-modify-write, the record lands on the
\* slot another writer has just filled
AppendRecordLost(list, rec) ==
    IF list = << >> THEN << rec >> ELSE [list EXCEPT ![Len(list)] = rec]

\* self.collaborators.append(args)
AppendRecord(list, rec) == Append(list, rec)

\* phase2_extract / extract_institutions reach their extraction branch
EnterExtraction(purpose) ==
    LET e == [NoExt EXCEPT !.transport = Transport(cfg),
                           !.purpose = purpose, !.swapped = Swaps(cfg)]
    IN  IF e.swapped THEN [pc |-> "swap", e |-> [e EXCEPT !.step = 1]]
        ELSE ExtIssue(e)

\* one of the four statements that save and replace self.model_name and
\* self.client; after the last one the loop is entered
ExtSwapStep(t) ==
    /\ pc[t] = "swap"
    /\ LET e == ext[t]
           stmt == SwapOrder(cfg, e.purpose)[e.step]
           e1 == [e EXCEPT !.step = @ + 1,
                           !.orig_model = IF stmt = "read_model"
                                          THEN model_name ELSE @,
                           !.orig_client = IF stmt = "read_client"
                                           THEN client ELSE @]
           a == IF e.step = 4 THEN ExtIssue(e1) ELSE [pc |-> "swap", e |-> e1]
       IN  /\ model_name' = IF stmt = "write_model" THEN "proc" ELSE model_name
           /\ client' = IF stmt = "write_client" THEN "proc" ELSE client
           /\ pc' = [pc EXCEPT ![t] = a.pc]
           /\ ext' = [ext EXCEPT ![t] = a.e]
           /\ srch' = [srch EXCEPT ![t] =
                          IF @.active /\ a.pc = "ext_call"
                          THEN [@ EXCEPT !.calls = @ + 1] ELSE @]
    /\ UNCHANGED << fixedVars, env, collaborators, searched_institutions,
                    collaborators_lock, console, drv, broad, ret, err, hist >>

\* the two statements of the `finally`
ExtRestoreStep(t) ==
    /\ pc[t] = "restore"
    /\ LET e == ext[t]
       IN  /\ model_name' = IF e.step = 1 THEN e.orig_model ELSE model_name
           /\ client' = IF e.step = 2 THEN e.orig_client ELSE client
           /\ pc' = [pc EXCEPT ![t] = IF e.step = 1 THEN "restore"
                                      ELSE IF e.raising THEN "raised"
                                      ELSE "ext_ret"]
           /\ ext' = [ext EXCEPT ![t] = IF e.step = 1 THEN [e EXCEPT !.step = 2]
                                        ELSE IF e.raising THEN NoExt
                                        ELSE e]
           /\ srch' = [srch EXCEPT ![t] = IF e.step = 2 /\ e.raising
                                          THEN NoSrch ELSE @]
    /\ UNCHANGED << fixedVars, env, collaborators, searched_institutions,
                    collaborators_lock, console, drv, broad, ret, err, hist >>

\* a provider call of the extraction loop returns or raises
ExtResponse(t) ==
    /\ pc[t] = "ext_call"
    /\ \E r0 \in ExtResponses(ext[t]) : \E r \in {Handled(r0)} :
         LET a == ExtStep(ext[t], r)
         IN  /\ pc' = [pc EXCEPT ![t] = a.pc]
             /\ ext' = [ext EXCEPT ![t] = a.e]
             /\ env' = ConsumeExt(env, ext[t], r)
             /\ console' = IF r.kind = "error"
                           THEN ConsoleAfterError(console, cfg.modal, r.matched)
                           ELSE console
             /\ srch' = [srch EXCEPT ![t] = IF a.pc = "raised" THEN NoSrch
                                            ELSE SrchNote(@, r, a.pc)]
             /\ hist' = HistAfter(hist, r)
    /\ UNCHANGED << fixedVars, model_name, client, collaborators,
                    searched_institutions, collaborators_lock, drv, broad,
                    ret, err >>

\* the next tool call of the round when it takes no lock: finish_extraction,
\* an unknown name, or save_institution (on_save_institution reads
\* args.get(...) first and the arguments are appended to items after it)
ExtToolCall(t) ==
    /\ pc[t] = "ext_tc"
    /\ ext[t].pending # << >>
    /\ LET e == ext[t]
           tc == Head(e.pending)
           e1 == [e EXCEPT !.pending = Tail(@)]
       IN  /\ ~(tc.name = "save" /\ e.purpose = "collab")
           /\ LET a == ProcessCall(e1, ToolCall(tc.name, DecodeArgs(tc.args)))
              IN  /\ pc' = [pc EXCEPT ![t] = a.pc]
                  /\ ext' = [ext EXCEPT ![t] = a.e]
                  /\ srch' = [srch EXCEPT ![t] =
                                 IF a.pc = "raised" THEN NoSrch
                                 ELSE IF @.active /\ a.pc = "ext_call"
                                 THEN [@ EXCEPT !.calls = @ + 1] ELSE @]
    /\ UNCHANGED << fixedVars, env, model_name, client, collaborators,
                    searched_institutions, collaborators_lock, console, drv,
                    broad, ret, err, hist >>

\* a slip: on_save_collaborator appends without entering the lock
OnSaveAcquireNoLock(t) ==
    /\ pc[t] = "ext_tc"
    /\ ext[t].pending # << >>
    /\ Head(ext[t].pending).name = "save"
    /\ ext[t].purpose = "collab"
    /\ ext' = [ext EXCEPT ![t] =
                  LET tc == ToolCall("save",
                                     DecodeArgs(Head(ext[t].pending).args))
                  IN  [CallOnSave(ext[t], tc.args) EXCEPT
                         !.cur = tc, !.pending = Tail(@)]]
    /\ hist' = [hist EXCEPT !.on_save = @ + 1]
    /\ pc' = [pc EXCEPT ![t] = "save_locked"]
    /\ UNCHANGED << fixedVars, env, model_name, client, collaborators,
                    searched_institutions, collaborators_lock, console, drv,
                    srch, broad, ret, err >>

\* on_save_collaborator(args) is called and enters `with
\* self._collaborators_lock:`
OnSaveAcquire(t) ==
    /\ pc[t] = "ext_tc"
    /\ ext[t].pending # << >>
    /\ Head(ext[t].pending).name = "save"
    /\ ext[t].purpose = "collab"
    /\ collaborators_lock = Free
    /\ collaborators_lock' = t
    /\ ext' = [ext EXCEPT ![t] =
                  LET tc == ToolCall("save",
                                     DecodeArgs(Head(ext[t].pending).args))
                  IN  [CallOnSave(ext[t], tc.args) EXCEPT
                         !.cur = tc, !.pending = Tail(@)]]
    /\ hist' = [hist EXCEPT !.on_save = @ + 1]
    /\ pc' = [pc EXCEPT ![t] = "save_locked"]
    /\ UNCHANGED << fixedVars, env, model_name, client, collaborators,
                    searched_institutions, console, drv, srch, broad, ret,
                    err >>

\* self.collaborators.append(args)
OnSaveAppend(t) ==
    /\ pc[t] = "save_locked"
    /\ collaborators' =
         AppendRecord(collaborators, Record(hist.on_save, t, ext[t].cur.args))
    /\ pc' = [pc EXCEPT ![t] = "save_appended"]
    /\ UNCHANGED << fixedVars, env, model_name, client,
                    searched_institutions, collaborators_lock, console, drv,
                    ext, srch, broad, ret, err, hist >>

\* the `with` block is left; then `args.get(...)` raises on arguments that
\* are not a dict, else the arguments are appended to items
OnSaveRelease(t) ==
    /\ pc[t] = "save_appended"
    /\ collaborators_lock' = Free
    /\ LET e == ext[t]
           a == IF e.cur.args.kind # "dict" THEN ExtRaise(e)
                ELSE AfterToolCall(
                       [SaveItem(e, e.cur.args) EXCEPT !.cur = NoCall])
       IN  /\ pc' = [pc EXCEPT ![t] = a.pc]
           /\ ext' = [ext EXCEPT ![t] = a.e]
           /\ srch' = [srch EXCEPT ![t] =
                          IF a.pc = "raised" THEN NoSrch
                          ELSE IF @.active /\ a.pc = "ext_call"
                          THEN [@ EXCEPT !.calls = @ + 1] ELSE @]
    /\ UNCHANGED << fixedVars, env, model_name, client, collaborators,
                    searched_institutions, console, drv, broad, ret, err,
                    hist >>

(***************************************************************************)
(* search(): Phase 1 research, then Phase 2 extraction.                    *)
(***************************************************************************)
\* a Python list handed back to the caller
List(items) == [parts |-> items, len |-> Len(items)]

\* a slip: the emptiness test is dropped and Phase 2 always runs
NoResearchTextNever(text) == FALSE

\* `if not research_text:`
NoResearchText(text) == text.len = 0

\* the frame of search() when it calls phase1_research
EnterSearch(max_turns) ==
    LET a == EnterDriver("research", max_turns \div 2)
    IN  [pc |-> a.pc, d |-> a.d,
         s |-> [active |-> TRUE, calls |-> IF a.pc = "drv_call" THEN 1 ELSE 0,
                first |-> "pending", phase2 |-> FALSE]]

\* search() ends on thread t with value v: the entry call returns it, an
\* institution task drops it and search_institution returns inst_name
SearchEnds(t, v) ==
    /\ pc' = [pc EXCEPT ![t] = "done"]
    /\ drv' = [drv EXCEPT ![t] = NoDrv]
    /\ ext' = [ext EXCEPT ![t] = NoExt]
    /\ ret' = IF t = 0 THEN v ELSE ret
    /\ srch' = [srch EXCEPT ![t] = IF t = 0 THEN @ ELSE NoSrch]

StartSearch ==
    /\ entry = "search"
    /\ pc[0] = "start"
    /\ LET a == EnterSearch(arg.max_turns)
       IN  /\ pc' = [pc EXCEPT ![0] = a.pc]
           /\ drv' = [drv EXCEPT ![0] = a.d]
           /\ srch' = [srch EXCEPT ![0] = a.s]
    /\ UNCHANGED << fixedVars, env, model_name, client, collaborators,
                    searched_institutions, collaborators_lock, console, ext,
                    broad, ret, err, hist >>

\* phase1_research returned: `return []` without research text, else
\* phase2_extract up to its first blocking statement
SearchAfterPhase1(t) ==
    /\ pc[t] = "drv_ret"
    /\ drv[t].purpose = "research"
    /\ IF NoResearchText(drv[t].result)
       THEN SearchEnds(t, List(<< >>))
       ELSE LET a == EnterExtraction("collab")
            IN  /\ pc' = [pc EXCEPT ![t] = a.pc]
                /\ ext' = [ext EXCEPT ![t] = a.e]
                /\ drv' = [drv EXCEPT ![t] = NoDrv]
                /\ srch' = [srch EXCEPT ![t] =
                               [@ EXCEPT !.phase2 = TRUE,
                                         !.calls = IF a.pc = "ext_call"
                                                   THEN @ + 1 ELSE @]]
                /\ ret' = ret
    /\ UNCHANGED << fixedVars, env, model_name, client, collaborators,
                    searched_institutions, collaborators_lock, console,
                    broad, err, hist >>

\* phase2_extract returns self.collaborators and search() returns it
SearchReturns(t) ==
    /\ pc[t] = "ext_ret"
    /\ ext[t].purpose = "collab"
    /\ SearchEnds(t, List(collaborators))
    /\ UNCHANGED << fixedVars, env, model_name, client, collaborators,
                    searched_institutions, collaborators_lock, console,
                    broad, err, hist >>

(***************************************************************************)
(* search_broad(): discovery, institution extraction, fan-out, join.       *)
(***************************************************************************)
max_workers == 5       \* ThreadPoolExecutor(max_workers=5)

Max(a, b) == IF a > b THEN a ELSE b
Min(a, b) == IF a < b THEN a ELSE b

\* the institution record saved by the i-th save_institution call
Institution(i, args) ==
    [name |-> i, relevance_score |-> args.score, scored |-> args.scored]

\* list.sort(key=relevance_score, reverse=True): stable, insertion of x
\* behind every element that is not smaller
RECURSIVE InsertByScore(_, _)
InsertByScore(sorted, x) ==
    IF sorted = << >> THEN << x >>
    ELSE IF Head(sorted).relevance_score >= x.relevance_score
    THEN << Head(sorted) >> \o InsertByScore(Tail(sorted), x)
    ELSE << x >> \o sorted

RECURSIVE SortByScore(_, _)
SortByScore(items, n) ==
    IF n = 0 THEN << >>
    ELSE InsertByScore(SortByScore(items, n - 1), Institution(n, items[n]))

\* a slip: the budget is shared out without the floor of 3
TurnsPerInstNoFloor(max_turns, k) == max_turns \div k

\* `turns_per_inst = max(3, max_turns // len(institutions))`
TurnsPerInst(max_turns, k) == Max(3, max_turns \div k)

\* a slip: the slice keeps one institution more
TruncateOneMore(list, n) == SubSeq(list, 1, Min(n + 1, Len(list)))

\* institutions[:max_institutions]
Truncate(list, n) == SubSeq(list, 1, Min(n, Len(list)))

\* a slip: the pool is as wide as the list of institutions
WorkerFreeUnbounded == TRUE

\* a worker of the pool is free to take the next queued task
WorkerFree ==
    Cardinality({ t \in Tasks :
                    pc[t] \notin {"none", "queued", "done", "raised"} })
        < max_workers

\* a slip: the institution tasks are submitted before discovery has run
StartBroadEager ==
    /\ entry = "broad"
    /\ pc[0] = "start"
    /\ LET a == EnterDriver("discover", Max(3, arg.max_turns \div 4))
       IN  /\ pc' = [t \in Threads |-> IF t = 0 THEN a.pc
                                       ELSE IF t = 1 THEN "queued" ELSE pc[t]]
           /\ drv' = [drv EXCEPT ![0] = a.d]
    /\ broad' = [institutions |-> << Institution(1, Dict(3)) >>,
                 turns_per_inst |-> Max(3, arg.max_turns), joined |-> {}]
    /\ UNCHANGED << fixedVars, env, model_name, client, collaborators,
                    searched_institutions, collaborators_lock, console, ext,
                    srch, ret, err, hist >>

\* search_broad up to the first provider call of discover_institutions
StartBroad ==
    /\ entry = "broad"
    /\ pc[0] = "start"
    /\ LET a == EnterDriver("discover", Max(3, arg.max_turns \div 4))
       IN  /\ pc' = [pc EXCEPT ![0] = a.pc]
           /\ drv' = [drv EXCEPT ![0] = a.d]
    /\ UNCHANGED << fixedVars, env, model_name, client, collaborators,
                    searched_institutions, collaborators_lock, console, ext,
                    srch, broad, ret, err, hist >>

\* discover_institutions returned: `return []` without text, else
\* extract_institutions up to its first blocking statement
BroadAfterDiscovery ==
    /\ pc[0] = "drv_ret"
    /\ drv[0].purpose = "discover"
    /\ IF NoResearchText(drv[0].result)
       THEN /\ pc' = [pc EXCEPT ![0] = "done"]
            /\ ret' = List(<< >>)
            /\ ext' = ext
       ELSE LET a == EnterExtraction("inst")
            IN  /\ pc' = [pc EXCEPT ![0] = a.pc]
                /\ ext' = [ext EXCEPT ![0] = a.e]
                /\ ret' = ret
    /\ drv' = [drv EXCEPT ![0] = NoDrv]
    /\ UNCHANGED << fixedVars, env, model_name, client, collaborators,
                    searched_institutions, collaborators_lock, console,
                    srch, broad, err, hist >>

\* extract_institutions sorts and returns; search_broad truncates, stores
\* the list, computes turns_per_inst and submits one task per institution
BroadAfterExtraction ==
    /\ pc[0] = "ext_ret"
    /\ ext[0].purpose = "inst"
    /\ LET sorted == SortByScore(ext[0].items, Len(ext[0].items))
           institutions == Truncate(sorted, arg.max_institutions)
       IN  IF sorted = << >>
           THEN /\ pc' = [pc EXCEPT ![0] = "done"]
                /\ ret' = List(<< >>)
                /\ UNCHANGED << searched_institutions, broad >>
           ELSE /\ searched_institutions' = institutions
                /\ ret' = ret
                /\ IF institutions = << >>
                   THEN /\ pc' = [pc EXCEPT ![0] = "raised"]
                        /\ broad' = broad
                   ELSE /\ pc' = [t \in Threads |->
                                    IF t = 0 THEN "join"
                                    ELSE IF t <= Len(institutions) THEN "queued"
                                    ELSE pc[t]]
                        /\ broad' = [institutions |-> institutions,
                                     turns_per_inst |->
                                       TurnsPerInst(arg.max_turns,
                                                    Len(institutions)),
                                     joined |-> {}]
    /\ ext' = [ext EXCEPT ![0] = NoExt]
    /\ UNCHANGED << fixedVars, env, model_name, client, collaborators,
                    collaborators_lock, console, drv, srch, err, hist >>

\* a pool worker takes the oldest queued task: search_institution runs up
\* to the first provider call of its search()
PoolStart(t) ==
    /\ pc[t] = "queued"
    /\ \A u \in Tasks : u < t => pc[u] # "queued"
    /\ WorkerFree
    /\ LET a == EnterSearch(broad.turns_per_inst)
       IN  /\ pc' = [pc EXCEPT ![t] = a.pc]
           /\ drv' = [drv EXCEPT ![t] = a.d]
           /\ srch' = [srch EXCEPT ![t] = a.s]
    /\ hist' = [hist EXCEPT !.started = @ + 1]
    /\ UNCHANGED << fixedVars, env, model_name, client, collaborators,
                    searched_institutions, collaborators_lock, console, ext,
                    broad, ret, err >>

\* as_completed yields a finished future: future.result() gives the name or
\* raises the task's exception, which is caught and printed
JoinFuture(t) ==
    /\ pc[0] = "join"
    /\ t \in Tasks
    /\ pc[t] \in {"done", "raised"}
    /\ t \notin broad.joined
    /\ broad' = [broad EXCEPT !.joined = @ \cup {t}]
    /\ console' = IF pc[t] = "raised"
                  THEN [console EXCEPT !.search_error = @ + 1]
                  ELSE [console EXCEPT !.completed = @ + 1]
    /\ UNCHANGED << fixedVars, env, model_name, client, collaborators,
                    searched_institutions, collaborators_lock, pc, drv, ext,
                    srch, ret, err, hist >>

\* every future was collected, the executor is shut down and search_broad
\* returns self.collaborators
BroadReturns ==
    /\ pc[0] = "join"
    /\ broad.joined = 1..Len(broad.institutions)
    /\ pc' = [pc EXCEPT ![0] = "done"]
    /\ ret' = List(collaborators)
    /\ UNCHANGED << fixedVars, env, model_name, client, collaborators,
                    searched_institutions, collaborators_lock, console, drv,
                    ext, srch, broad, err, hist >>

(***************************************************************************)
(* Entry "driver": one research driver called on its own.                  *)
(***************************************************************************)
StartDriver ==
    /\ entry = "driver"
    /\ pc[0] = "start"
    /\ LET a == EnterDriver("driver", arg.max_turns)
       IN  /\ pc' = [pc EXCEPT ![0] = a.pc]
           /\ drv' = [drv EXCEPT ![0] = a.d]
    /\ UNCHANGED << entry, cfg, arg, env, model_name, client, collaborators,
                    searched_institutions, collaborators_lock, console, ext,
                    srch, broad, ret, err, hist >>

DriverReturns ==
    /\ pc[0] = "drv_ret"
    /\ drv[0].purpose = "driver"
    /\ ret' = drv[0].result
    /\ pc' = [pc EXCEPT ![0] = "done"]
    /\ UNCHANGED << entry, cfg, arg, env, model_name, client, collaborators,
                    searched_institutions, collaborators_lock, console, drv,
                    ext, srch, broad, err, hist >>

(***************************************************************************)
(* Entry "classify": _handle_api_error called on its own.                  *)
(***************************************************************************)
Fragments ==
    { S_quota,
      <<"I", "n", "s", "u", "f", "f", "i", "c", "i", "e", "n", "t", "_", "Q", "u", "o", "t", "a">>,
      <<"R", "E", "S", "O", "U", "R", "C", "E", "_", "E", "X", "H", "A", "U", "S", "T", "E", "D">>,
      <<"r", "e", "s", "o", "u", "r", "c", "e", "_", "e", "x", "h", "a", "u", "s", "t", "e", "d">>,
      <<"4", "2", "9", " ">>,
      <<"4", "0">>,
      <<"1">>,
      <<"3">>,
      S_timeout,
      <<"U", "n", "a", "u", "t", "h", "e", "n", "t", "i", "c", "a", "t", "e", "d">>,
      <<"p", "e", "r", "m", "i", "s", "s", "i", "o", "n", "_", "d", "e", "n", "i", "e", "d", " ">>,
      <<"R", "a", "t", "e", "_", "L", "i", "m", "i", "t">> }

RECURSIVE ErrorStrings(_)
ErrorStrings(n) ==
    IF n = 0 THEN { << >> }
    ELSE LET shorter == ErrorStrings(n - 1)
         IN  shorter \cup { s \o f : s \in shorter, f \in Fragments }

NoErr == [error_str |-> NoError, handled |-> FALSE, matched |-> 0,
          fatal |-> FALSE]

\* CollAgentBase._handle_api_error(exception, context)
HandleApiError ==
    /\ entry = "classify"
    /\ pc[0] = "start"
    /\ LET i == FirstFatalPattern(err.error_str, 1)
       IN  /\ err' = [err EXCEPT !.handled = TRUE, !.matched = i,
                                 !.fatal = IsFatal(i)]
           /\ console' = ConsoleAfterError(console, cfg.modal, i)
    /\ pc' = [pc EXCEPT ![0] = "done"]
    /\ UNCHANGED << entry, cfg, arg, env, model_name, client, collaborators,
                    searched_institutions, collaborators_lock, drv, ext,
                    srch, broad, ret, hist >>

(***************************************************************************)
(* Initial states.                                                         *)
(***************************************************************************)
Cfg(agent, pp, tool, sclient, modal) ==
    [agent |-> agent, pp |-> pp, tool |-> tool, sclient |-> sclient,
     modal |-> modal]

\* one configuration per research driver
DriverConfigs ==
    { Cfg("google", "none", FALSE, FALSE, TRUE),
      Cfg("openai", "none", FALSE, FALSE, FALSE),
      Cfg("google", "none", TRUE, FALSE, FALSE),
      Cfg("openai", "none", TRUE, TRUE, TRUE) }

NoHist == [fatal |-> 0, transient |-> 0, on_save |-> 0, started |-> 0,
           interrupted |-> FALSE, snapshot |-> << >>]
NoRet == [parts |-> << >>, len |-> -1]
NoBroad == [institutions |-> << >>, turns_per_inst |-> 0, joined |-> {}]
NoArg == [max_turns |-> 0, max_institutions |-> 0]

InitAgent ==
    /\ model_name = "main"
    /\ client = "main"
    /\ searched_institutions = << >>
    /\ collaborators_lock = Free
    /\ console = EmptyConsole
    /\ pc = [t \in Threads |-> IF t = 0 THEN "start" ELSE "none"]
    /\ drv = [t \in Threads |-> NoDrv]
    /\ ext = [t \in Threads |-> NoExt]
    /\ srch = [t \in Threads |-> NoSrch]
    /\ broad = NoBroad
    /\ ret = NoRet
    /\ hist = NoHist

\* the texts the backend may answer with, by what the prompt asks for
Answers(discover, research) ==
    [p \in {"discover", "research", "driver"} |->
        IF p = "discover" THEN discover ELSE research]

FreeEnv ==
    [texts |-> Answers(AllTexts, AllTexts),
     tooltexts |-> {NoText, Text(1000, Plain, FALSE)},
     finishes |-> {"stop", "length"},
     errset |-> {S_quota, S_timeout}, errors |-> MaxErrors,
     tools |-> MaxToolRounds, empties |-> MaxEmpty, bad |-> 1,
     names |-> {"finish_extraction", "other"}, scores |-> {3},
     saves |-> MaxSaves, isaves |-> MaxInst,
     payloads |-> {}, script |-> << >>,
     \* whether search_tool.search may raise, and whether the frames keep
     \* the message list of the Chat Completions loops
     searchfails |-> {FALSE}, trace |-> FALSE]

\* a backend that answers with texts of every kind and never asks for a
\* search
TalkEnv == [FreeEnv EXCEPT !.tools = 0]

\* a backend that asks for searches, with fewer kinds of text
RoundsEnv ==
    [FreeEnv EXCEPT !.texts = Answers({ Text(1000, Plain, FALSE) },
                                      { Text(1000, Plain, FALSE),
                                        Text(200, Plain, FALSE),
                                        Text(400, SaidMixed, FALSE),
                                        Text(3, Blank, TRUE) })]

\* a backend of few words: one more round of tool calls and one more empty
\* response than the free one, a single text for a text turn, no failure;
\* its tool calls come alone or with a text of any kind
QuietEnv ==
    [FreeEnv EXCEPT !.texts = Answers({ Text(1000, Plain, FALSE) },
                                      { Text(1000, Plain, FALSE) }),
                    !.tooltexts = { NoText, Text(200, SaidUpper, FALSE),
                                    Text(3, Blank, TRUE) },
                    !.finishes = { "length" },
                    !.tools = MaxToolRounds + 1, !.empties = MaxEmpty + 1,
                    !.errors = 0, !.bad = 0]

\* a backend of one text that asks for searches, with a search tool that may
\* raise; the message list of the Chat Completions loop is kept
TraceEnv ==
    [FreeEnv EXCEPT !.texts = Answers({ Text(1000, Plain, FALSE) },
                                      { Text(1000, Plain, FALSE) }),
                    !.tooltexts = { NoText },
                    !.finishes = { "stop" },
                    !.bad = 0,
                    !.searchfails = BOOLEAN, !.trace = TRUE]

InitDriver ==
    /\ entry = "driver"
    /\ cfg \in DriverConfigs
    /\ arg \in { [max_turns |-> n, max_institutions |-> 0] : n \in 0..MaxTurnsArg }
    /\ env \in { TalkEnv, RoundsEnv, QuietEnv, TraceEnv }
    /\ err = NoErr
    /\ collaborators = << >>
    /\ InitAgent

NextDriver ==
    \/ StartDriver
    \/ DrvResponse(0)
    \/ DrvToolReturn(0)
    \/ DrvSynthResponse(0)
    \/ DriverReturns

SpecDriver == InitDriver /\ [][NextDriver]_vars

InitClassify ==
    /\ entry = "classify"
    /\ cfg \in { Cfg("google", "none", FALSE, FALSE, m) : m \in BOOLEAN }
    /\ arg = NoArg
    /\ env = FreeEnv
    /\ err \in { [NoErr EXCEPT !.error_str = s] : s \in ErrorStrings(MaxFrags) }
    /\ collaborators = << >>
    /\ InitAgent

NextClassify == HandleApiError

SpecClassify == InitClassify /\ [][NextClassify]_vars

(***************************************************************************)
(* Entry "search": one search() call on an agent that may hold the records *)
(* of an earlier call.                                                     *)
(***************************************************************************)
AgentConfigs(modals) ==
    { Cfg(a, p, ts[1], ts[2], m) :
        a \in {"google", "openai"},
        p \in {"none", "google", "openai", "openai_compatible"},
        ts \in { << FALSE, FALSE >>, << TRUE, FALSE >>, << TRUE, TRUE >> },
        m \in modals }

SearchEnv ==
    [FreeEnv EXCEPT !.texts = Answers({ Text(1000, Plain, FALSE) },
                                      { Text(1000, Plain, FALSE),
                                        Text(400, SaidUpper, FALSE) }),
                    !.tooltexts = { NoText },
                    !.finishes = { "stop" },
                    !.tools = 1]

InitSearch ==
    /\ entry = "search"
    /\ cfg \in AgentConfigs(BOOLEAN)
    /\ arg \in { [max_turns |-> n, max_institutions |-> 0] : n \in {1, 4} }
    /\ env = SearchEnv
    /\ err = NoErr
    /\ collaborators \in { << >>, << Record(0, 0, Dict(3)) >> }
    /\ InitAgent

SearchSteps(t) ==
    \/ DrvResponse(t)
    \/ DrvToolReturn(t)
    \/ DrvSynthResponse(t)
    \/ SearchAfterPhase1(t)
    \/ ExtSwapStep(t)
    \/ ExtResponse(t)
    \/ ExtToolCall(t)
    \/ OnSaveAcquire(t)
    \/ OnSaveAppend(t)
    \/ OnSaveRelease(t)
    \/ ExtRestoreStep(t)
    \/ SearchReturns(t)

NextSearch ==
    \/ StartSearch
    \/ SearchSteps(0)

SpecSearch == InitSearch /\ [][NextSearch]_vars

(***************************************************************************)
(* Entry "broad": one search_broad() call on a fresh agent.                *)
(***************************************************************************)
\* a backend that answers research with text and extraction with saves,
\* and names two institutions
BroadEnv ==
    [SearchEnv EXCEPT !.texts = Answers({ Text(1000, Plain, FALSE) },
                                        { Text(1000, Plain, FALSE) }),
                      !.tools = 0, !.empties = 0, !.errors = 0, !.bad = 0,
                      !.isaves = 2,
                      !.names = { "finish_extraction" }]

\* a scenario of search_broad: the agent, the backend and the arguments
Scenario(c, e, mt, mi) ==
    [cfg |-> c, env |-> e, arg |-> [max_turns |-> mt, max_institutions |-> mi]]

\* the scenarios of search_broad
BroadScenarios ==
    LET
        \* the processing model is on the agent's own SDK: model_name and client
        \* are swapped around the extraction; the backend saves two
        \* collaborators at most
        SwapScenarios ==
            { Scenario(Cfg("google", "google", FALSE, FALSE, TRUE),
                       [BroadEnv EXCEPT !.saves = 2], 4, n) : n \in 1..MaxInst }
            \cup { Scenario(Cfg("openai", "openai", FALSE, FALSE, TRUE),
                            [BroadEnv EXCEPT !.saves = 2], 4, 2) }

        \* a Chat Completions processing model whose answers may be malformed, and
        \* provider errors
        FaultScenarios ==
            { Scenario(Cfg("google", "openai_compatible", FALSE, FALSE, TRUE),
                       [BroadEnv EXCEPT !.bad = 1, !.errors = MaxErrors],
                       4, MaxInst),
              Scenario(Cfg("openai", "none", FALSE, FALSE, TRUE),
                       [BroadEnv EXCEPT !.bad = 1], 4, MaxInst),
              Scenario(Cfg("google", "none", FALSE, FALSE, FALSE),
                       [BroadEnv EXCEPT !.errors = MaxErrors], 4, MaxInst) }

        \* a search tool: discovery and research run the tool-based driver
        ToolScenarios ==
            { Scenario(Cfg("openai", "none", TRUE, TRUE, TRUE),
                       [BroadEnv EXCEPT !.tools = 1, !.isaves = 1, !.saves = 1,
                                        !.errors = 1, !.errset = { S_timeout }],
                       4, 1) }

        \* more institutions than pool workers, and a backend that fails every
        \* research call with a transient error
        PoolScenarios ==
            { Scenario(Cfg("google", "none", FALSE, FALSE, TRUE),
                       [BroadEnv EXCEPT !.isaves = MaxPoolInst, !.saves = 0,
                                        !.errset = { S_timeout },
                                        !.texts = Answers({ Text(1000, Plain, FALSE) }, {}),
                                        !.errors = MaxPoolInst + 1],
                       4, MaxPoolInst) }

        \* three institutions with scores that differ, repeat or are missing, and
        \* a backend that has no text for the research of any of them
        RankScenarios ==
            { Scenario(Cfg("google", "none", FALSE, FALSE, TRUE),
                       [BroadEnv EXCEPT !.scores = {2, 4}, !.payloads = { EmptyObject },
                                        !.isaves = 3, !.saves = 0,
                                        !.texts = Answers({ Text(1000, Plain, FALSE) }, {}),
                                        !.empties = 4],
                       mt, n) : mt \in {1, 4, 16}, n \in 0..3 }
    IN  SwapScenarios \cup FaultScenarios \cup ToolScenarios
        \cup PoolScenarios \cup RankScenarios

InitBroad ==
    /\ entry = "broad"
    /\ \E s \in BroadScenarios :
          /\ cfg = s.cfg
          /\ env = s.env
          /\ arg = s.arg
    /\ err = NoErr
    /\ collaborators = << >>
    /\ InitAgent

NextBroad ==
    \/ StartBroad
    \/ BroadAfterDiscovery
    \/ BroadAfterExtraction
    \/ \E t \in Tasks : PoolStart(t)
    \/ \E t \in Tasks : JoinFuture(t)
    \/ BroadReturns
    \/ \E t \in Threads : SearchSteps(t)

SpecBroad == InitBroad /\ [][NextBroad]_vars

(***************************************************************************)
(* search_broad under the command line's `try`, with one KeyboardInterrupt *)
(* delivered to the main thread.                                           *)
(***************************************************************************)
\* Ctrl-C: KeyboardInterrupt is raised in the main thread, here where it
\* blocks.  In a provider call of discovery or institution extraction it
\* leaves the loop (no `except Exception` catches it, a `finally` of a
\* swapping branch runs).  In as_completed it leaves the `with` block, whose
\* exit is executor.shutdown(wait=True): the main thread waits for every
\* submitted task, the queued ones included.
Interrupt ==
    /\ entry = "broad"
    /\ ~hist.interrupted
    /\ pc[0] \in {"drv_call", "drv_synth", "ext_call", "join"}
    /\ hist' = [hist EXCEPT !.interrupted = TRUE, !.snapshot = collaborators]
    /\ LET a == IF pc[0] = "join" THEN [pc |-> "shutdown", e |-> ext[0]]
                ELSE IF pc[0] = "ext_call" THEN ExtRaise(ext[0])
                ELSE [pc |-> "raised", e |-> ext[0]]
       IN  /\ pc' = [pc EXCEPT ![0] = a.pc]
           /\ ext' = [ext EXCEPT ![0] = a.e]
    /\ drv' = [drv EXCEPT ![0] = NoDrv]
    /\ UNCHANGED << fixedVars, env, model_name, client, collaborators,
                    searched_institutions, collaborators_lock, console, srch,
                    broad, ret, err >>

\* main(): `except KeyboardInterrupt:` prints "Search interrupted" and, `if
\* agent.collaborators:`, generates the report from the collection
KeyboardInterruptHandler ==
    /\ hist.interrupted
    /\ \/ pc[0] = "raised"
       \/ /\ pc[0] = "shutdown"
          /\ \A t \in Tasks : pc[t] \in {"none", "done", "raised"}
    /\ pc' = [pc EXCEPT ![0] = "done"]
    /\ ret' = IF collaborators # << >> THEN List(collaborators) ELSE ret
    /\ UNCHANGED << fixedVars, env, model_name, client, collaborators,
                    searched_institutions, collaborators_lock, console, drv,
                    ext, srch, broad, err, hist >>

InitInterrupt ==
    /\ entry = "broad"
    /\ \E s \in BroadScenarios :
          /\ s.env.empties = 0
          /\ cfg = s.cfg
          /\ env = s.env
          /\ arg = s.arg
    /\ err = NoErr
    /\ collaborators = << >>
    /\ InitAgent

NextInterrupt ==
    \/ NextBroad
    \/ Interrupt
    \/ KeyboardInterruptHandler

SpecInterrupt == InitInterrupt /\ [][NextInterrupt]_vars

(***************************************************************************)
(* Entries "phase2_extract" and "extract_institutions": one call of the    *)
(* method on a fresh agent, against a backend that plays a script.         *)
(***************************************************************************)
\* the scripts: responses after which the loop goes on, then one that ends
\* it
Scripts ==
    LET Continuing ==
          { ExtResp("ok", << ToolCall("save", Dict(3)),
                             ToolCall("other", Dict(0)) >>, NoError),
            ExtResp("ok", << ToolCall("other", Dict(0)),
                             ToolCall("save", Dict(9)) >>, NoError),
            ExtResp("ok", << ToolCall("save", Garbled) >>, NoError) }
        Ending ==
          { ExtResp("ok", << >>, NoError),
            ExtResp("ok", << ToolCall("finish_extraction", Garbled),
                             ToolCall("save", EmptyObject) >>, NoError),
            ExtResp("ok", << ToolCall("save", NonDict) >>, NoError),
            ExtResp("error", << >>, S_quota),
            ExtResp("error", << >>, S_timeout) }
    IN  { p \o << r >> :
            p \in UNION { [1..n -> Continuing] : n \in 0..(MaxScript - 1) },
            r \in Ending }

\* the genai SDK hands the arguments over as a mapping: no payload to decode,
\* nothing that is no object
Speaks(transport, script) ==
    transport = "genai" =>
        \A i \in 1..Len(script) : \A j \in 1..Len(script[i].calls) :
            script[i].calls[j].args.kind = "dict"

ExtractConfigs ==
    { Cfg("google", "none", FALSE, FALSE, FALSE),
      Cfg("google", "google", FALSE, FALSE, FALSE),
      Cfg("google", "openai_compatible", FALSE, FALSE, FALSE),
      Cfg("openai", "none", FALSE, FALSE, FALSE),
      Cfg("openai", "openai", FALSE, FALSE, FALSE) }

InitExtract ==
    /\ entry \in {"phase2_extract", "extract_institutions"}
    /\ cfg \in ExtractConfigs
    /\ arg = NoArg
    /\ \E sc \in Scripts :
          /\ Speaks(Transport(cfg), sc)
          /\ env = [FreeEnv EXCEPT !.script = sc, !.trace = TRUE]
    /\ err = NoErr
    /\ collaborators = << >>
    /\ InitAgent

\* the method up to its first blocking statement
StartExtract ==
    /\ entry \in {"phase2_extract", "extract_institutions"}
    /\ pc[0] = "start"
    /\ LET a == EnterExtraction(IF entry = "phase2_extract" THEN "collab"
                                 ELSE "inst")
       IN  /\ pc' = [pc EXCEPT ![0] = a.pc]
           /\ ext' = [ext EXCEPT ![0] = a.e]
    /\ UNCHANGED << fixedVars, env, model_name, client, collaborators,
                    searched_institutions, collaborators_lock, console, drv,
                    srch, broad, ret, err, hist >>

\* `return self.collaborators`, or the sort of the loop's list and `return
\* institutions`
ExtractReturns ==
    /\ entry \in {"phase2_extract", "extract_institutions"}
    /\ pc[0] = "ext_ret"
    /\ ret' = IF entry = "phase2_extract" THEN List(collaborators)
              ELSE List(SortByScore(ext[0].items, Len(ext[0].items)))
    /\ pc' = [pc EXCEPT ![0] = "done"]
    /\ UNCHANGED << fixedVars, env, model_name, client, collaborators,
                    searched_institutions, collaborators_lock, console, drv,
                    ext, srch, broad, err, hist >>

\* the loop of a transport run in one piece over a script: every provider
\* call is answered by the script, every tool call is processed with
\* on_save run in one piece
RECURSIVE RunLoop(_, _)
RunLoop(a, script) ==
    IF a.pc = "ext_call"
    THEN RunLoop(ExtStep(a.e, Handled(ScriptAt(script, a.e.calls))), script)
    ELSE IF a.pc = "ext_tc"
    THEN RunLoop(ProcessCall([a.e EXCEPT !.pending = Tail(@)],
                             ToolCall(Head(a.e.pending).name,
                                      DecodeArgs(Head(a.e.pending).args))),
                 script)
    ELSE a

RunOf(transport, purpose, script) ==
    RunLoop(ExtIssue([NoExt EXCEPT !.transport = transport,
                                   !.purpose = purpose]), script)

NextExtract ==
    \/ StartExtract
    \/ ExtSwapStep(0)
    \/ ExtResponse(0)
    \/ ExtToolCall(0)
    \/ OnSaveAcquire(0)
    \/ OnSaveAppend(0)
    \/ OnSaveRelease(0)
    \/ ExtRestoreStep(0)
    \/ ExtractReturns

SpecExtract == InitExtract /\ [][NextExtract]_vars

(***************************************************************************)
(* Entry "generate_report": one generate_report() call on an agent whose   *)
(* collection was filled by earlier searches.                              *)
(***************************************************************************)
\* a saved collaborator: the arguments with the institution the model named
Collab(id, args, inst) ==
    Record(id, 0, [kind |-> "dict", score |-> args.score,
                   scored |-> args.scored, institution |-> inst])

\* `x.get("alignment_score", 0)`
AlignmentKey(c) == IF c.args.scored THEN c.args.score ELSE 0

\* sorted(..., reverse=True) is stable: x goes behind every element that is
\* not smaller
RECURSIVE InsertByAlignment(_, _)
InsertByAlignment(sorted, x) ==
    IF sorted = << >> THEN << x >>
    ELSE IF AlignmentKey(Head(sorted)) >= AlignmentKey(x)
    THEN << Head(sorted) >> \o InsertByAlignment(Tail(sorted), x)
    ELSE << x >> \o sorted

RECURSIVE SortByAlignment(_, _)
SortByAlignment(collabs, n) ==
    IF n = 0 THEN << >>
    ELSE InsertByAlignment(SortByAlignment(collabs, n - 1), collabs[n])

\* a slip: the collection is presented in the order of insertion
sorted_collabsUnsorted(collabs) == collabs

\* sorted(self.collaborators, key=..., reverse=True)
sorted_collabs(collabs) == SortByAlignment(collabs, Len(collabs))

\* the keys of by_institution, in the order they were inserted
RECURSIVE InstitutionOrder(_, _)
InstitutionOrder(list, seen) ==
    IF list = << >> THEN << >>
    ELSE LET inst == Head(list).args.institution
         IN  IF inst \in seen THEN InstitutionOrder(Tail(list), seen)
             ELSE << inst >> \o InstitutionOrder(Tail(list), seen \cup {inst})

\* `for inst_name, collabs in by_institution.items(): for c in collabs:`
RECURSIVE Grouped(_, _)
Grouped(list, order) ==
    IF order = << >> THEN << >>
    ELSE LET OfHead(c) == c.args.institution = Head(order)
         IN  SelectSeq(list, OfHead) \o Grouped(list, Tail(order))

\* the collaborators in the order the report presents them
Presented(collabs, searched) ==
    LET sorted == sorted_collabs(collabs)
    IN  IF searched # << >>
        THEN Grouped(sorted, InstitutionOrder(sorted, {}))
        ELSE sorted

InitReport ==
    /\ entry = "generate_report"
    /\ cfg \in { Cfg("google", "none", FALSE, FALSE, FALSE),
                 Cfg("openai", "none", FALSE, FALSE, FALSE) }
    /\ arg = NoArg
    /\ env = FreeEnv
    /\ err = NoErr
    /\ \E n \in 0..MaxCollabs :
          \E f \in [1..n -> { Dict(2), Dict(4), EmptyObject }
                            \X {"A", "B"}] :
             collaborators = [i \in 1..n |-> Collab(i, f[i][1], f[i][2])]
    /\ model_name = "main"
    /\ client = "main"
    /\ searched_institutions \in { << >>, << Institution(1, Dict(3)) >> }
    /\ collaborators_lock = Free
    /\ console = EmptyConsole
    /\ pc = [t \in Threads |-> IF t = 0 THEN "start" ELSE "none"]
    /\ drv = [t \in Threads |-> NoDrv]
    /\ ext = [t \in Threads |-> NoExt]
    /\ srch = [t \in Threads |-> NoSrch]
    /\ broad = NoBroad
    /\ ret = NoRet
    /\ hist = NoHist

\* generate_report(): "No collaborators found." or the report
GenerateReport ==
    /\ entry = "generate_report"
    /\ pc[0] = "start"
    /\ ret' = List(Presented(collaborators, searched_institutions))
    /\ pc' = [pc EXCEPT ![0] = "done"]
    /\ UNCHANGED << fixedVars, env, model_name, client, collaborators,
                    searched_institutions, collaborators_lock, console, drv,
                    ext, srch, broad, err, hist >>

NextReport == GenerateReport

SpecReport == InitReport /\ [][NextReport]_vars

(***************************************************************************)
(* Entry "sections": the pool of search_broad with a StreamingConsole.     *)
(* search_broad has submitted one search_institution task per institution; *)
(* of a task only what it does to the console is kept: the section it      *)
(* sets, the messages it prints, the section it clears.  An institution is *)
(* named by its place in the list, and the name is not empty.              *)
(***************************************************************************)
Workers == 1..max_workers    \* the threads of the ThreadPoolExecutor
NoSection == 0               \* None, and a thread that never set a section

\* a StreamingConsole: the thread-local section of every pool thread and the
\* log messages put on the queue, each with the task that printed it
NewStreamingConsole ==
    [section |-> [w \in Workers |-> NoSection], queue |-> {}]

\* a slip: the section is one attribute of the console, shared by all
\* threads
set_sectionShared(con, w, section) ==
    [con EXCEPT !.section = [x \in Workers |-> section]]

\* StreamingConsole.set_section called on thread w
set_section(con, w, section) ==
    [con EXCEPT !.section = [@ EXCEPT ![w] = section]]

\* StreamingConsole.print called on thread w by task t without a section
\* argument: `msg_section = ... self._get_section()`, and the key is set
\* `if msg_section:`
console_print(con, w, t, text) ==
    [con EXCEPT !.queue = @ \cup { [by |-> t, text |-> text,
                                    section |-> con.section[w]] }]

\* the pool threads that run no task
Idle(w) == \A t \in Tasks : broad.thread[t] # w

InitSections ==
    /\ entry = "sections"
    /\ cfg \in { Cfg("google", "none", FALSE, FALSE, TRUE),
                 Cfg("openai", "none", FALSE, FALSE, TRUE) }
    /\ \E k \in 1..MaxPoolInst :
          /\ arg = [max_turns |-> 4, max_institutions |-> k]
          /\ searched_institutions = [i \in 1..k |-> Institution(i, Dict(3))]
          /\ pc = [t \in Threads |-> IF t = 0 THEN "join"
                                     ELSE IF t <= k THEN "queued" ELSE "none"]
          /\ broad = [institutions |-> searched_institutions,
                      turns_per_inst |-> TurnsPerInst(4, k), joined |-> {},
                      thread |-> [t \in Tasks |-> 0]]
    /\ env = FreeEnv
    /\ err = NoErr
    /\ collaborators = << >>
    /\ model_name = "main"
    /\ client = "main"
    /\ collaborators_lock = Free
    /\ console = NewStreamingConsole
    /\ drv = [t \in Threads |-> NoDrv]
    /\ ext = [t \in Threads |-> NoExt]
    /\ srch = [t \in Threads |-> NoSrch]
    /\ ret = NoRet
    /\ hist = NoHist

\* an idle pool thread takes the oldest queued task: search_institution sets
\* the section and prints its banner.  Idle threads with the same section
\* are alike, the lowest of them stands for all.
SectionTaskStart(t, w) ==
    /\ entry = "sections"
    /\ pc[t] = "queued"
    /\ \A u \in Tasks : u < t => pc[u] # "queued"
    /\ Idle(w)
    /\ \A x \in Workers :
          x < w /\ Idle(x) => console.section[x] # console.section[w]
    /\ broad' = [broad EXCEPT !.thread = [@ EXCEPT ![t] = w]]
    /\ console' = console_print(set_section(console, w, t), w, t, "Searching")
    /\ pc' = [pc EXCEPT ![t] = "searching"]
    /\ UNCHANGED << fixedVars, env, model_name, client, collaborators,
                    searched_institutions, collaborators_lock, drv, ext,
                    srch, ret, err, hist >>

\* self.search(...) prints on the task's thread
SectionTaskPrint(t) ==
    /\ entry = "sections"
    /\ pc[t] = "searching"
    /\ console' = console_print(console, broad.thread[t], t, "Starting")
    /\ pc' = [pc EXCEPT ![t] = "printed"]
    /\ UNCHANGED << fixedVars, env, model_name, client, collaborators,
                    searched_institutions, collaborators_lock, drv, ext,
                    srch, broad, ret, err, hist >>

\* self.search(...) returns or raises; `finally:` clears the section and
\* the thread goes back to the pool
SectionTaskEnd(t) ==
    /\ entry = "sections"
    /\ pc[t] = "printed"
    /\ \E outcome \in {"done", "raised"} :
          pc' = [pc EXCEPT ![t] = outcome]
    /\ console' = set_section(console, broad.thread[t], NoSection)
    /\ broad' = [broad EXCEPT !.thread = [@ EXCEPT ![t] = 0]]
    /\ UNCHANGED << fixedVars, env, model_name, client, collaborators,
                    searched_institutions, collaborators_lock, drv, ext,
                    srch, ret, err, hist >>

NextSections ==
    \/ \E t \in Tasks : \E w \in Workers : SectionTaskStart(t, w)
    \/ \E t \in Tasks : SectionTaskPrint(t)
    \/ \E t \in Tasks : SectionTaskEnd(t)

SpecSections == InitSections /\ [][NextSections]_vars

(***************************************************************************)
(* Properties.                                                             *)
(***************************************************************************)

\* C1: when search_broad has joined its tasks, self.collaborators holds
\* exactly one entry for every on_save_collaborator call any task made: as
\* many entries as calls, and the entry of the k-th call exactly once.
C1_OneEntryPerSave ==
    (entry = "broad" /\ pc[0] = "done") =>
        /\ Len(collaborators) = hist.on_save
        /\ \A k \in 1..hist.on_save :
             Cardinality({ i \in DOMAIN collaborators :
                             collaborators[i].id = k }) = 1

\* search_broad has returned and two different tasks have records in the list
C1_Witness ==
    /\ entry = "broad"
    /\ pc[0] = "done"
    /\ \E i, j \in DOMAIN collaborators :
         /\ collaborators[i].by \in Tasks
         /\ collaborators[j].by \in Tasks
         /\ collaborators[i].by # collaborators[j].by

\* C2: between the submission of the institution tasks and the return of
\* search_broad no step changes self.model_name, self.client or
\* self.searched_institutions: the tasks write self.collaborators only.
C2_TasksWriteOnlyCollaborators ==
    [][ (entry = "broad" /\ pc[0] = "join") =>
           /\ model_name' = model_name
           /\ client' = client
           /\ searched_institutions' = searched_institutions ]_vars

\* C3: when search_broad has returned after one of its tasks raised, no
\* record of self.collaborators comes from a task that raised.
C3_OnlyNonRaisingRecords ==
    (entry = "broad" /\ pc[0] = "done") =>
        \A i \in DOMAIN collaborators : pc[collaborators[i].by] # "raised"

\* C4: whenever an institution task has left the queue of the pool,
\* search_broad is past discover_institutions and extract_institutions: the
\* caller's thread is at the join or has returned and holds no driver or
\* extraction frame.
C4_DiscoveryBeforeFanOut ==
    \A t \in Tasks :
        pc[t] \notin {"none", "queued"} =>
            /\ pc[0] \in {"join", "done"}
            /\ drv[0] = NoDrv
            /\ ext[0] = NoExt

\* a task has a research call in flight while the caller waits at the join
C4_Witness ==
    /\ entry = "broad"
    /\ pc[0] = "join"
    /\ searched_institutions # << >>
    /\ \E t \in Tasks : pc[t] = "drv_call" /\ drv[t].calls = 1

\* C5: at most 5 institution tasks execute at any moment; a task is started
\* once (as many starts as tasks that left the queue) and when search_broad
\* returns every selected institution's task has been started and has ended.
C5_PoolBound ==
    /\ Cardinality({ t \in Tasks :
                       pc[t] \notin {"none", "queued", "done", "raised"} }) <= 5
    /\ hist.started = Cardinality({ t \in Tasks : pc[t] \notin {"none", "queued"} })
    /\ (entry = "broad" /\ pc[0] = "done" /\ broad.institutions # << >>) =>
          /\ hist.started = Len(broad.institutions)
          /\ \A t \in 1..Len(broad.institutions) : pc[t] \in {"done", "raised"}

\* six institutions were selected, five tasks run and the sixth waits
C5_Witness ==
    /\ Len(broad.institutions) > 5
    /\ Cardinality({ t \in Tasks :
                       pc[t] \notin {"none", "queued", "done", "raised"} }) = 5
    /\ \E t \in Tasks : pc[t] = "queued"

\* C6: the thread that holds self._collaborators_lock is inside the `with`
\* block of on_save_collaborator, so none of its provider or search-tool
\* calls is in flight; and a step that changes self.collaborators appends
\* one record while the lock is held.
C6_LockOnlyAroundAppend ==
    /\ [](\A t \in Threads :
            collaborators_lock = t =>
                /\ pc[t] \in {"save_locked", "save_appended"}
                /\ pc[t] \notin {"drv_call", "drv_tool", "drv_synth", "ext_call"})
    /\ [][ collaborators' # collaborators =>
              /\ collaborators_lock # Free
              /\ collaborators_lock' = collaborators_lock
              /\ pc[collaborators_lock] = "save_locked"
              /\ Len(collaborators') = Len(collaborators) + 1
              /\ SubSeq(collaborators', 1, Len(collaborators)) = collaborators ]_vars

\* a task has appended under the lock while another task waits to enter it
C6_Witness ==
    /\ collaborators_lock \in Tasks
    /\ pc[collaborators_lock] = "save_appended"
    /\ \E u \in Tasks :
         /\ u # collaborators_lock
         /\ pc[u] = "ext_tc"
         /\ ext[u].pending # << >>
         /\ Head(ext[u].pending).name = "save"

\* C7: once the first provider call of search() has raised a fatal error, the
\* call issues no further provider call, never enters Phase 2, has recorded
\* one fatal notification and no "API Error in" line, and returns [].
C7_FatalFirstCall ==
    (entry = "search" /\ srch[0].first = "fatal") =>
        /\ srch[0].calls = 1
        /\ ~srch[0].phase2
        /\ ext[0] = NoExt
        /\ pc[0] \in {"drv_ret", "done"}
        /\ console.fatal_error + console.fatal_lines = 1
        /\ console.note.code = "insufficient_quota"
        /\ console.api_error = 0
        /\ pc[0] = "done" => ret = List(<< >>)

\* search() has returned [] after a fatal first call, on an agent that
\* holds a record of an earlier search
C7_Witness ==
    /\ entry = "search"
    /\ pc[0] = "done"
    /\ srch[0].first = "fatal"
    /\ collaborators # << >>
    /\ ret.len = 0

\* C8: _handle_api_error returns True exactly when the lower-cased exception
\* string contains the lower-cased form of some pattern of
\* FATAL_ERROR_PATTERNS; the notification then carries the message, code and
\* help URL of the first such pattern in table order.
C8_ClassifierTable ==
    err.handled =>
        LET m == { i \in 1..Len(FATAL_ERROR_PATTERNS) :
                     IsSubstring(lower(FATAL_ERROR_PATTERNS[i].pattern),
                                 lower(err.error_str)) }
        IN  /\ err.fatal <=> m # {}
            /\ m = {} => err.matched = 0 /\ console.note = NoNote
            /\ m # {} =>
                 /\ err.matched \in m
                 /\ \A j \in m : err.matched <= j
                 /\ console.note =
                      [code |-> FATAL_ERROR_PATTERNS[err.matched].code,
                       message |-> FATAL_ERROR_PATTERNS[err.matched].message,
                       help_url |-> FATAL_ERROR_PATTERNS[err.matched].help_url]

\* an exception string in mixed case that matches two patterns was classified
C8_Witness ==
    /\ err.handled
    /\ err.fatal
    /\ err.error_str # lower(err.error_str)
    /\ Cardinality({ i \in 1..Len(FATAL_ERROR_PATTERNS) :
                       IsSubstring(lower(FATAL_ERROR_PATTERNS[i].pattern),
                                   lower(err.error_str)) }) >= 2

\* C9: the console holds one fatal notification per error classified fatal
\* (a fatal_error message when the console has that method, the bold red
\* line otherwise) and one "API Error in" line per error classified
\* transient, and nothing of either kind otherwise; a run without a fatal
\* error holds no fatal notification.
C9_FatalAndTransientDistinct ==
    /\ console.fatal_error + console.fatal_lines = hist.fatal
    /\ console.api_error = hist.transient
    /\ cfg.modal => console.fatal_lines = 0
    /\ ~cfg.modal => console.fatal_error = 0
    /\ hist.fatal = 0 => console.note = NoNote

\* search() has returned no result after a transient error: one log line
\* and no fatal notification
C9_Witness ==
    /\ entry = "search"
    /\ pc[0] = "done"
    /\ ret.len = 0
    /\ hist.transient = 1
    /\ hist.fatal = 0
    /\ console.api_error = 1
    /\ console.note = NoNote

C11_FatalKeepsEarlierText ==
    (/\ entry = "driver"
     /\ pc[0] = "done"
     /\ drv[0].variant \in {"grounded", "web"}
     /\ drv[0].broke = "fatal"
     /\ drv[0].calls > 1) =>
        ret = Join(drv[0].acc)

\* C12: in every research driver entered with max_turns >= 1, when the first
\* response is a text without tool calls that holds "SEARCH COMPLETE" in any
\* letter case, the driver makes no second provider call and returns exactly
\* that text.
C12_StopPhraseFirstResponse ==
    (/\ entry = "driver"
     /\ drv[0].seen.n = 1
     /\ drv[0].seen.kind = "ok"
     /\ drv[0].seen.tools = 0
     /\ IsSubstring(lower(SEARCH_COMPLETE), lower(drv[0].seen.text.words))) =>
        /\ drv[0].max_turns >= 1
        /\ pc[0] \in {"drv_ret", "done"}
        /\ drv[0].calls = 1
        /\ drv[0].result = Join(<< drv[0].seen.text >>)
        /\ drv[0].result.len = drv[0].seen.text.len
        /\ pc[0] = "done" => ret = drv[0].result

\* a tool-based driver returned the text of its first response, which held
\* the stop phrase in mixed case
C12_Witness ==
    /\ entry = "driver"
    /\ pc[0] = "done"
    /\ drv[0].variant \in ToolVariants
    /\ drv[0].seen.n = 1
    /\ drv[0].seen.tools = 0
    /\ drv[0].seen.text = Text(400, SaidMixed, FALSE)
    /\ ret = Join(<< Text(400, SaidMixed, FALSE) >>)

C14_GroundedTurnBudget ==
    (entry = "driver" /\ drv[0].variant \in {"grounded", "web"}) =>
        LET acc == drv[0].acc
        IN  /\ drv[0].calls <= drv[0].max_turns
            /\ (/\ pc[0] = "done"
                /\ Len(acc) = drv[0].calls
                /\ \A i \in 1..Len(acc) :
                     /\ ~IsSubstring(lower(SEARCH_COMPLETE), lower(acc[i].words))
                     /\ i > 1 => 10 * acc[i].len >= 3 * acc[i - 1].len) =>
                    /\ drv[0].calls = drv[0].max_turns
                    /\ ret = Join(acc)

\* with max_turns = 3 a web-search driver got three steady texts and
\* returned after its third call
C14_Witness ==
    /\ entry = "driver"
    /\ pc[0] = "done"
    /\ drv[0].variant = "web"
    /\ drv[0].max_turns = 3
    /\ drv[0].calls = 3
    /\ Len(drv[0].acc) = 3
    /\ \A i \in 1..3 : drv[0].acc[i] \in { Text(1000, Plain, FALSE), Text(300, Plain, FALSE) }
    /\ ret = Join(drv[0].acc)

\* C15 as stated: in a tool-based driver a pure-text response with no stop
\* phrase and no diminishing return, received with text-turn budget left,
\* does not end the loop whatever its finish reason: another provider call
\* follows, and a backend that only gives such texts gets exactly max_turns
\* text turns.
C15_TextTurnContinues ==
    [][ LET r == drv'[0].seen
            d == drv[0]
            acc == drv[0].acc
        IN  /\ (/\ entry = "driver"
                /\ d.variant \in ToolVariants
                /\ pc[0] = "drv_call"
                /\ r.n = d.calls
                /\ r.kind = "ok" /\ r.tools = 0 /\ r.text.len > 0
                /\ ~IsSubstring(lower(SEARCH_COMPLETE), lower(r.text.words))
                /\ ~(d.last > 0 /\ 10 * r.text.len < 3 * d.last)
                /\ d.text_turns + 1 < d.max_turns) =>
                   /\ pc'[0] = "drv_call"
                   /\ drv'[0].calls = d.calls + 1
                   /\ drv'[0].text_turns = d.text_turns + 1
            /\ (/\ entry = "driver"
                /\ d.variant \in ToolVariants
                /\ pc[0] = "done"
                /\ ~d.did_search
                /\ Len(acc) = d.calls
                /\ \A i \in 1..Len(acc) :
                     /\ ~IsSubstring(lower(SEARCH_COMPLETE), lower(acc[i].words))
                     /\ i > 1 => 10 * acc[i].len >= 3 * acc[i - 1].len) =>
                   d.text_turns = d.max_turns
      ]_vars

\* C16: in a tool-based driver text_turns never exceeds max_turns and
\* search_rounds never exceeds 3 x max_turns; a response with tool calls
\* adds one to search_rounds and leaves text_turns alone, a response with
\* text and no tool calls adds one to text_turns and leaves search_rounds
\* alone.
C16_ToolRoundAccounting ==
    [][ LET r == drv'[0].seen
            d == drv[0]
            answered == /\ entry = "driver"
                        /\ d.variant \in ToolVariants
                        /\ pc[0] = "drv_call"
                        /\ r.n = d.calls
                        /\ r.kind = "ok"
        IN  /\ (entry = "driver" /\ d.variant \in ToolVariants) =>
                  /\ d.text_turns <= d.max_turns
                  /\ d.search_rounds <= 3 * d.max_turns
            /\ (answered /\ r.tools > 0) =>
                  /\ drv'[0].search_rounds = d.search_rounds + 1
                  /\ drv'[0].text_turns = d.text_turns
                  /\ pc'[0] = "drv_tool"
            /\ (answered /\ r.tools = 0 /\ r.text.len > 0) =>
                  /\ drv'[0].text_turns = d.text_turns + 1
                  /\ drv'[0].search_rounds = d.search_rounds
      ]_vars

\* with max_turns = 1 the backend gave two rounds of tool calls and then a
\* pure text: the driver returned with one text turn and two search rounds
C16_Witness ==
    /\ entry = "driver"
    /\ pc[0] = "done"
    /\ drv[0].variant \in ToolVariants
    /\ drv[0].max_turns = 1
    /\ drv[0].calls = 3
    /\ drv[0].seen.n = 3
    /\ drv[0].seen.tools = 0
    /\ drv[0].seen.text.len > 0
    /\ drv[0].text_turns = 1
    /\ drv[0].search_rounds = 2

\* C17 as stated: whatever the backend answers, a grounded-search driver
\* makes at most max_turns provider calls, and a tool-based driver makes at
\* most 4 x max_turns loop calls and at most one synthesis call.
C17_BoundedProviderCalls ==
    entry = "driver" =>
        IF drv[0].variant \in ToolVariants
        THEN /\ drv[0].calls - drv[0].synth <= 4 * drv[0].max_turns
             /\ drv[0].synth <= 1
        ELSE drv[0].calls <= drv[0].max_turns

\* C18 as stated: in every research driver a response with no text and no
\* tool calls ends the loop when some text has been accumulated, and when
\* nothing has been accumulated the loop goes on to the next provider call
\* as long as budget remains.
C18_EmptyResponseHandling ==
    [][ LET r == drv'[0].seen
            d == drv[0]
            empty == /\ entry = "driver"
                     /\ pc[0] = "drv_call"
                     /\ r.n = d.calls
                     /\ r.kind = "ok" /\ r.tools = 0 /\ r.text.len = 0
        IN  /\ (empty /\ d.acc # << >>) =>
                  /\ pc'[0] = "drv_ret"
                  /\ drv'[0].calls = d.calls
                  /\ drv'[0].result = Join(d.acc)
            /\ (empty /\ d.acc = << >> /\ LoopCond(d)) =>
                  /\ pc'[0] = "drv_call"
                  /\ drv'[0].calls = d.calls + 1
      ]_vars

\* C19 as stated: a tool-based driver makes its synthesis call, once, exactly
\* when the loop was left without a fatal abort after at least one round of
\* tool calls and with no text accumulated; the non-empty text of that call
\* is the result, and when the call raises the driver returns "".
C19_SynthesisNonEmptyKept ==
    (entry = "driver" /\ drv[0].variant # "none") =>
        LET d == drv[0]
        IN  /\ d.synth <= 1
            /\ d.synth = 1 =>
                 /\ d.variant \in ToolVariants
                 /\ d.did_search
                 /\ d.broke # "fatal"
                 /\ d.calls >= 2
                 /\ pc[0] \in {"drv_synth", "drv_ret", "done"}
                 /\ pc[0] = "drv_synth" => d.acc = << >>
            /\ (/\ pc[0] \in {"drv_ret", "done"}
                /\ d.variant \in ToolVariants
                /\ d.synth = 0 /\ d.did_search /\ d.broke # "fatal") =>
                    d.acc # << >>
            /\ (d.synth = 1 /\ pc[0] \in {"drv_ret", "done"}) =>
                 /\ d.seen.n = d.calls
                 /\ d.result = IF d.seen.kind = "ok" /\ d.seen.text.len > 0
                               THEN Join(<< d.seen.text >>)
                               ELSE EmptyString
                 /\ pc[0] = "done" => ret = d.result

\* C19: a tool-based driver makes its synthesis call, once, exactly when the
\* loop was left without a fatal abort after at least one round of tool
\* calls and with no text accumulated; the text of that call is the result
\* when it is non-empty and, in the Chat Completions variant, not white space
\* only; otherwise, and when the call raises, the driver returns "".
C19_SynthesisOnlyAfterSilentSearch ==
    (entry = "driver" /\ drv[0].variant # "none") =>
        LET d == drv[0]
        IN  /\ d.synth <= 1
            /\ d.synth = 1 =>
                 /\ d.variant \in ToolVariants
                 /\ d.did_search
                 /\ d.broke # "fatal"
                 /\ d.calls >= 2
                 /\ pc[0] \in {"drv_synth", "drv_ret", "done"}
                 /\ pc[0] = "drv_synth" => d.acc = << >>
            /\ (/\ pc[0] \in {"drv_ret", "done"}
                /\ d.variant \in ToolVariants
                /\ d.synth = 0 /\ d.did_search /\ d.broke # "fatal") =>
                    d.acc # << >>
            /\ (d.synth = 1 /\ pc[0] \in {"drv_ret", "done"}) =>
                 /\ d.seen.n = d.calls
                 /\ d.result = IF /\ d.seen.kind = "ok"
                                  /\ d.seen.text.len > 0
                                  /\ ~(d.variant = "tool_cc" /\ d.seen.text.blank)
                               THEN Join(<< d.seen.text >>)
                               ELSE EmptyString
                 /\ pc[0] = "done" => ret = d.result

\* a tool-based driver left its loop without any error, having searched and
\* accumulated nothing, and returned the text of its synthesis call
C19_Witness ==
    /\ entry = "driver"
    /\ pc[0] = "done"
    /\ drv[0].variant \in ToolVariants
    /\ drv[0].broke = "no"
    /\ drv[0].synth = 1
    /\ drv[0].search_rounds >= 1
    /\ drv[0].seen.kind = "ok"
    /\ ret = Join(<< drv[0].seen.text >>)
    /\ ret.len > 0

\* C20 as stated: on every transport one extraction invocation performs at
\* most max_turns rounds and never issues more than max_turns provider calls
\* (max_turns is 5).
C20_ExtractionCallCeiling ==
    \A t \in Threads :
        /\ ext[t].turn <= ExtMaxTurns
        /\ ext[t].calls <= ExtMaxTurns


\* C21: in every extraction loop a processed tool call named save_func_name
\* makes one on_save call with that call's decoded arguments and, when
\* on_save has returned, one append of them to the list the loop returns; a
\* call of another name makes neither.  Whenever no on_save call is under
\* way, the list is the sequence of the arguments given to on_save so far,
\* in call order.
C21_OneOnSaveOneItem ==
    /\ [](\A t \in Threads :
            pc[t] \in {"ext_call", "ext_tc", "ext_ret", "restore"}
            /\ ~ext[t].raising
            => ext[t].items = ext[t].given)
    /\ [][\A t \in Threads :
            /\ pc[t] = "ext_tc" /\ ext'[t] # ext[t] /\ pc'[t] # "raised"
               => LET tc == Head(ext[t].pending)
                  IN  IF tc.name = "save"
                      THEN /\ ext'[t].given =
                                Append(ext[t].given, DecodeArgs(tc.args))
                           /\ ext'[t].items \in
                                { ext[t].items, ext'[t].given }
                      ELSE /\ ext'[t].given = ext[t].given
                           /\ ext'[t].items = ext[t].items
            /\ pc[t] = "save_appended" /\ pc'[t] \in {"ext_call", "ext_tc", "ext_ret"}
               => /\ ext'[t].items = Append(ext[t].items, ext[t].cur.args)
                  /\ ext'[t].given = ext[t].given
            /\ pc[t] \in {"ext_call", "save_locked", "swap", "restore"}
               /\ ext'[t].transport # "none"
               => /\ ext'[t].items = ext[t].items
                  /\ ext'[t].given = ext[t].given]_vars

\* a loop has returned a list of two items, the second one decoded from a
\* payload that was no JSON
C21_Witness ==
    /\ pc[0] = "ext_ret"
    /\ Len(ext[0].items) >= 2
    /\ ext[0].items = ext[0].given
    /\ ext[0].items[2] = EmptyObject


\* C22: a tool call whose name is neither save_func_name nor
\* finish_extraction does not raise, does not call on_save and adds no
\* item; it is answered with "Unknown: <name>", the calls after it in the
\* round are still processed, and after the round the loop makes its next
\* provider call unless the round also held finish_extraction (or the
\* loop's turns are used up).
C22_UnknownToolAnswered ==
    [][\A t \in Threads :
         pc[t] = "ext_tc" /\ ext'[t] # ext[t]
         /\ Head(ext[t].pending).name \notin {"save", "finish_extraction"}
         => LET e == ext[t]
                rest == Tail(e.pending)
            IN  /\ pc'[t] # "raised"
                /\ ~ext'[t].raising
                /\ ext'[t].given = e.given
                /\ ext'[t].items = e.items
                /\ ext'[t].finished = e.finished
                /\ ext'[t].result = << "Unknown: ", Head(e.pending).name >>
                /\ ext'[t].pending = rest
                /\ rest # << >> => pc'[t] = "ext_tc"
                /\ rest = << >> /\ ~e.finished
                   /\ (e.transport = "responses" \/ e.turn < ExtMaxTurns)
                   => pc'[t] = "ext_call" /\ ext'[t].calls = e.calls + 1
                /\ rest = << >> /\ e.finished
                   => pc'[t] \in {"ext_ret", "restore"}]_vars

\* the loop is making its second provider call after a round that ended
\* with a call of an unknown tool
C22_Witness ==
    /\ pc[0] = "ext_call"
    /\ ext[0].calls = 2
    /\ ext[0].result = << "Unknown: ", "other" >>
    /\ Len(ext[0].items) = 1


\* C23: a tool call whose argument payload cannot be decoded does not abort
\* the loop: its arguments are the empty object, and it is handled like any
\* call of its name (a save call gives on_save the empty object, which
\* becomes the item), and the calls after it are still processed.
C23_UndecodablePayloadIsEmptyObject ==
    /\ [](\A t \in Threads :
            /\ ext[t].cur.args.kind # "garbled"
            /\ \A i \in 1..Len(ext[t].given) : ext[t].given[i].kind # "garbled"
            /\ \A i \in 1..Len(ext[t].items) : ext[t].items[i].kind # "garbled")
    /\ [](\A i \in 1..Len(collaborators) : collaborators[i].args.kind # "garbled")
    /\ [][\A t \in Threads :
            pc[t] = "ext_tc" /\ ext'[t] # ext[t]
            /\ Head(ext[t].pending).args.kind = "garbled"
            => LET e == ext[t]
                   tc == Head(e.pending)
               IN  /\ pc'[t] # "raised"
                   /\ ~ext'[t].raising
                   /\ ext'[t].pending = Tail(e.pending)
                   /\ tc.name = "save"
                      => /\ ext'[t].given = Append(e.given, EmptyObject)
                         /\ \/ ext'[t].items = Append(e.items, EmptyObject)
                            \/ /\ pc'[t] = "save_locked"
                               /\ ext'[t].cur = ToolCall("save", EmptyObject)
                   /\ tc.name = "finish_extraction" => ext'[t].finished
                   /\ tc.name \notin {"save", "finish_extraction"}
                      => ext'[t].result = << "Unknown: ", tc.name >>]_vars

\* phase2_extract is making the next provider call after a round whose
\* save_collaborator payload was no JSON: the empty object is in the
\* collection and in the loop's list
C23_Witness ==
    /\ pc[0] = "ext_call"
    /\ entry = "phase2_extract"
    /\ ext[0].calls - 1 \in 1..Len(env.script)
    /\ env.script[ext[0].calls - 1].calls = << ToolCall("save", Garbled) >>
    /\ ext[0].items # << >>
    /\ ext[0].items[Len(ext[0].items)] = EmptyObject
    /\ collaborators # << >>
    /\ collaborators[Len(collaborators)].args = EmptyObject


\* C24: every record of the collaborator collection has an alignment_score
\* in 1..5 and every institution record a relevance_score in 1..5, whatever
\* arguments the model sent.
C24_ScoresInRange ==
    /\ \A i \in 1..Len(collaborators) :
          /\ collaborators[i].args.scored
          /\ collaborators[i].args.score \in 1..5
    /\ entry = "extract_institutions" /\ pc[0] = "done"
       => \A i \in 1..Len(ret.parts) :
             /\ ret.parts[i].scored
             /\ ret.parts[i].relevance_score \in 1..5


\* C25: the three extraction transports are observably equivalent: with the
\* same max_turns and the same sequence of responses and errors from the
\* backend, each gives on_save the same arguments in the same order, returns
\* the same list, makes the same number of provider calls and reports the
\* same errors to the classifier.
C25_TransportsEquivalent ==
    pc[0] = "ext_ret"
    => \A tr \in {"genai", "cc", "responses"} :
          Speaks(tr, env.script)
          => LET a == RunOf(tr, ext[0].purpose, env.script)
             IN  /\ a.pc = "ext_ret"
                 /\ a.e.given = ext[0].given
                 /\ a.e.items = ext[0].items
                 /\ a.e.calls = ext[0].calls
                 /\ a.e.reported = ext[0].reported


\* C26: whatever its research phase gathered, text or none, a search() call
\* that returns hands back the agent's whole collaborator collection: the
\* records of earlier calls and those of this one.
C26_SearchReturnsCollection ==
    entry = "search" /\ pc[0] = "done" => ret = List(collaborators)


\* C27: for max_institutions >= 1, search_broad searches the first
\* min(max_institutions, n) of the n extracted institutions in the order of
\* relevance_score, highest first, where a missing score counts as 0 and
\* equal scores keep the order of extraction: never more than
\* max_institutions, and no institution left out has a higher score than a
\* searched one.  (An institution's name is its place in the extraction.)
C27_SearchedAreTopRanked ==
    [][pc[0] = "ext_ret" /\ ext[0].purpose = "inst" /\ pc'[0] # pc[0]
       /\ arg.max_institutions >= 1 /\ ext[0].items # << >>
       => LET items == ext[0].items
              n == Len(items)
              S == searched_institutions'
              k == Len(S)
              key(i) == IF items[i].scored THEN items[i].score ELSE 0
              chosen == { S[j].name : j \in 1..k }
          IN  /\ k = Min(arg.max_institutions, n)
              /\ chosen \subseteq 1..n
              /\ Cardinality(chosen) = k
              /\ \A j \in 1..k :
                    /\ S[j].scored = items[S[j].name].scored
                    /\ S[j].scored => S[j].relevance_score = items[S[j].name].score
              /\ \A i, j \in 1..k :
                    i < j => \/ key(S[i].name) > key(S[j].name)
                             \/ /\ key(S[i].name) = key(S[j].name)
                                /\ S[i].name < S[j].name
              /\ \A o \in (1..n) \ chosen : \A c \in chosen :
                    \/ key(o) < key(c)
                    \/ key(o) = key(c) /\ c < o
              /\ \A t \in Tasks : pc'[t] = "queued" <=> t <= k]_vars

\* with max_institutions = 2 the institution extracted third is searched
\* first, with score 4, and the one extracted second comes next, with score 2
C27_Witness ==
    /\ entry = "broad"
    /\ arg.max_institutions = 2
    /\ pc[0] = "join"
    /\ Len(searched_institutions) = 2
    /\ searched_institutions[1].name = 3
    /\ searched_institutions[1].relevance_score = 4
    /\ searched_institutions[2].name = 2
    /\ searched_institutions[2].relevance_score = 2


\* C28 as stated: the report presents the collaborators in non-increasing
\* order of alignment_score whatever the order of insertion, in
\* single-institution mode and in broad mode alike: no collaborator comes
\* after one with a strictly lower score.
C28_ReportNonIncreasing ==
    entry = "generate_report" /\ pc[0] = "done"
    => \A i, j \in 1..ret.len :
          i < j => AlignmentKey(ret.parts[i]) >= AlignmentKey(ret.parts[j])

\* C28, amended: the report presents every collaborator once.  In
\* single-institution mode the order is non-increasing in alignment_score.
\* In broad mode the collaborators of one institution stand together, in
\* non-increasing order within the institution, and the institutions come
\* in non-increasing order of their best collaborator.
C28_ReportOrderedWithinGroups ==
    entry = "generate_report" /\ pc[0] = "done"
    => LET P == ret.parts
           key(i) == AlignmentKey(P[i])
           inst(i) == P[i].args.institution
           first(i) == \A h \in 1..(i - 1) : inst(h) # inst(i)
       IN  /\ ret.len = Len(collaborators)
           /\ \A c \in 1..Len(collaborators) :
                 \E i \in 1..ret.len : P[i] = collaborators[c]
           /\ searched_institutions = << >>
              => \A i, j \in 1..ret.len : i < j => key(i) >= key(j)
           /\ searched_institutions # << >>
              => \A i, j \in 1..ret.len :
                    i < j =>
                      /\ inst(i) = inst(j) => key(i) >= key(j)
                      /\ inst(i) = inst(j)
                         => \A h \in i..j : inst(h) = inst(i)
                      /\ first(i) /\ first(j) => key(i) >= key(j)

\* a broad-mode report of three collaborators inserted lowest first: the
\* institution of the best one comes first with both its collaborators,
\* the weaker of them ahead of the other institution's collaborator
C28_Witness ==
    /\ entry = "generate_report"
    /\ pc[0] = "done"
    /\ searched_institutions # << >>
    /\ ret.len = 3
    /\ AlignmentKey(collaborators[1]) < AlignmentKey(collaborators[3])
    /\ AlignmentKey(ret.parts[1]) = 4
    /\ AlignmentKey(ret.parts[2]) = 0
    /\ AlignmentKey(ret.parts[3]) = 2
    /\ ret.parts[1].args.institution = ret.parts[2].args.institution


\* C29: search(max_turns) gives its research driver max_turns \div 2 turns;
\* search_broad gives discovery Max(3, max_turns \div 4) turns and calls
\* search for each of the k institutions it selected with
\* Max(3, max_turns \div k), so the research driver of every institution
\* has a budget of at least one text turn and makes at least one provider
\* call.
C29_TurnBudgets ==
    [][/\ entry = "broad" /\ pc[0] = "start" /\ pc'[0] # "start"
          => /\ drv'[0].purpose = "discover"
             /\ drv'[0].max_turns = Max(3, arg.max_turns \div 4)
       /\ \A t \in Tasks :
            pc[t] = "queued" /\ pc'[t] # "queued"
            => LET k == Len(searched_institutions)
               IN  /\ drv'[t].purpose = "research"
                   /\ drv'[t].max_turns = Max(3, arg.max_turns \div k) \div 2
                   /\ drv'[t].max_turns >= 1
                   /\ pc'[t] = "drv_call"
                   /\ srch'[t].calls = 1]_vars

\* search_broad(max_turns=16) selected three institutions; the research of
\* the third has max(3, 16 // 3) // 2 = 2 turns and its first provider call
\* is under way
C29_Witness ==
    /\ entry = "broad"
    /\ arg.max_turns = 16
    /\ Len(searched_institutions) = 3
    /\ pc[3] = "drv_call"
    /\ drv[3].max_turns = 2


\* C30: with a StreamingConsole, every log message an institution task
\* prints between its start and its end carries as section the name of the
\* task's own institution, under every interleaving of the tasks and every
\* reuse of a pool thread; no message carries another institution's name;
\* and once a task has ended, by return or by exception, the section of
\* its pool thread is cleared.
C30_MessagesCarryOwnSection ==
    entry = "sections"
    => /\ \A m \in console.queue : m.section = m.by
       /\ \A t \in Tasks :
            pc[t] \in {"printed", "done", "raised"}
            => \A text \in {"Searching", "Starting"} :
                  [by |-> t, text |-> text, section |-> t] \in console.queue
       /\ \A w \in Workers : Idle(w) => console.section[w] = NoSection
       /\ \A t \in Tasks :
            pc[t] \in {"searching", "printed"}
            => console.section[broad.thread[t]] = t

\* the sixth task has printed on a pool thread that ran an earlier task,
\* which ended by exception, while another task is still running
C30_Witness ==
    /\ entry = "sections"
    /\ pc[6] = "printed"
    /\ \E u \in 1..5 :
          /\ pc[u] = "raised"
          /\ \A w \in Workers \ {broad.thread[6]} :
                \E v \in 1..5 : broad.thread[v] = w
    /\ [by |-> 6, text |-> "Starting", section |-> 6] \in console.queue


\* C40: search_broad does not raise whatever max_institutions >= 0 is: when
\* the slice to max_institutions leaves no institution although some were
\* extracted, it starts no institution task and returns, instead of failing
\* on the per-institution turn budget.
C40_BroadReturnsWhenNoneSelected ==
    [][entry = "broad" /\ pc[0] = "ext_ret" /\ ext[0].purpose = "inst"
       /\ pc'[0] # "ext_ret"
       => /\ pc'[0] # "raised"
          /\ ext[0].items # << >> /\ arg.max_institutions = 0
             => /\ pc'[0] = "done"
                /\ \A t \in Tasks : pc'[t] = "none"]_vars


\* C32: empty results are a graceful outcome without side effect.  A
\* search() whose research returned no text ends with an empty list, does
\* not enter Phase 2 and leaves the collaborator collection as it was; a
\* search_broad whose discovery returned no text, or whose extraction
\* saved no institution, returns an empty list without raising, starts no
\* institution task and leaves the collaborator collection and
\* searched_institutions as they were.
C32_EmptyResultsAreGraceful ==
    [][/\ \A t \in Threads :
            pc[t] = "drv_ret" /\ drv[t].purpose = "research"
            /\ drv[t].result.len = 0 /\ pc'[t] # "drv_ret"
            => /\ pc'[t] = "done"
               /\ ext'[t] = NoExt
               /\ t = 0 => ret' = List(<< >>)
               /\ collaborators' = collaborators
               /\ searched_institutions' = searched_institutions
       /\ entry = "broad" /\ pc'[0] # pc[0]
          /\ \/ pc[0] = "drv_ret" /\ drv[0].purpose = "discover"
                /\ drv[0].result.len = 0
             \/ pc[0] = "ext_ret" /\ ext[0].purpose = "inst"
                /\ ext[0].items = << >>
          => /\ pc'[0] = "done"
             /\ ret' = List(<< >>)
             /\ \A t \in Tasks : pc'[t] = "none"
             /\ collaborators' = collaborators
             /\ searched_institutions' = searched_institutions]_vars

\* search_broad has returned an empty list after a discovery or an
\* extraction that produced nothing: no task was started, nothing was
\* searched, nothing collected
C32_Witness ==
    /\ entry = "broad"
    /\ pc[0] = "done"
    /\ ret = List(<< >>)
    /\ \A t \in Tasks : pc[t] = "none"
    /\ collaborators = << >>
    /\ searched_institutions = << >>


\* C33: within one search_broad call searched_institutions is assigned at
\* most once, by the step that follows extract_institutions and before any
\* institution task is submitted; no task, no join step and no later step
\* of the call (nor generate_report) changes it afterwards.
C33_SearchedInstitutionsAssignedOnce ==
    [][searched_institutions' # searched_institutions
       => /\ entry = "broad"
          /\ pc[0] = "ext_ret" /\ ext[0].purpose = "inst"
          /\ pc'[0] \in {"join", "raised"}
          /\ searched_institutions = << >>
          /\ hist.started = 0
          /\ \A t \in Tasks : pc[t] = "none"]_vars

\* search_broad has returned after at least two institution tasks ran and
\* were joined, and searched_institutions is still the list it stored
\* before the fan-out
C33_Witness ==
    /\ entry = "broad"
    /\ pc[0] = "done"
    /\ Len(searched_institutions) >= 2
    /\ searched_institutions = broad.institutions
    /\ broad.joined = 1..Len(searched_institutions)
    /\ hist.started = Len(searched_institutions)


\* C34: the temporary swap of model_name / client made for Phase 2 is always
\* undone: when search_broad has returned, under every interleaving of its
\* institution tasks, both attributes hold the values they had before the
\* call.
C34_SwapUndoneAfterBroad ==
    entry = "broad" /\ pc[0] \in {"done", "raised"}
    /\ (\A t \in Tasks : pc[t] \in {"none", "done", "raised"})
    => model_name = "main" /\ client = "main"


\* C35: with a separate processing model, for every interleaving of the
\* institution tasks, each Phase 1 research call is issued with the search
\* model and client in self.model_name / self.client, and each Phase 2
\* extraction call of a swapping configuration with the processing model
\* and client.
C35_PhaseUsesOwnModel ==
    [][\A t \in Threads :
         /\ drv'[t].calls + drv'[t].synth > drv[t].calls + drv[t].synth
            => model_name' = "main" /\ client' = "main"
         /\ Swaps(cfg) /\ pc'[t] = "ext_call" /\ ext'[t].calls > ext[t].calls
            => model_name' = "proc" /\ client' = "proc"]_vars


\* C36: in an extraction round that holds finish_extraction every tool call
\* of the round is still processed, the saves after finish_extraction
\* included: while calls of the round are pending the loop goes on to the
\* next of them, a loop that ends normally after finish_extraction has no
\* call of the round left, and no provider call is issued once
\* finish_extraction was seen.
C36_FinishEndsAfterWholeRound ==
    [][\A t \in Threads :
         ext[t].finished
         => /\ ext'[t].calls = ext[t].calls \/ ext'[t] = NoExt
            /\ pc[t] = "ext_tc" /\ ext[t].pending # << >> /\ pc'[t] # "ext_tc"
               => \/ pc'[t] = "save_locked"
                  \/ ext'[t].raising \/ pc'[t] = "raised"
                  \/ /\ pc'[t] \in {"ext_ret", "restore"}
                     /\ Len(ext[t].pending) = 1
                     /\ ext'[t].pending = << >>
            /\ pc'[t] \in {"ext_ret", "restore"} /\ pc[t] # pc'[t]
               /\ ~ext'[t].raising
               => ext'[t].pending = << >>]_vars

\* a loop has ended after a round whose finish_extraction was followed by a
\* save: the save was handed to on_save and answered "Saved"
C36_Witness ==
    /\ pc[0] = "ext_ret"
    /\ ext[0].finished
    /\ ext[0].pending = << >>
    /\ ext[0].given # << >>
    /\ ext[0].result = << "Saved" >>


\* C39: a provider error in round k > 1 of an extraction loop undoes no
\* earlier save: the loop returns, without raising, the items of the rounds
\* before; their records stay in the shared collection and search() returns
\* them; and under every step of the program the collection only grows at
\* its end.
C39_ErrorKeepsEarlierSaves ==
    [][/\ Len(collaborators') >= Len(collaborators)
       /\ SubSeq(collaborators', 1, Len(collaborators)) = collaborators
       /\ \A t \in Threads :
            pc[t] = "ext_call" /\ ext[t].calls > 1
            /\ Len(ext'[t].reported) > Len(ext[t].reported)
            => /\ pc'[t] \in {"ext_ret", "restore"}
               /\ ~ext'[t].raising
               /\ ext'[t].items = ext[t].items
               /\ collaborators' = collaborators
       /\ entry = "search" /\ pc[0] = "ext_ret" /\ pc'[0] = "done"
          => /\ ret' = List(collaborators)
             /\ Len(collaborators) >= Len(ext[0].items)
             /\ \A i \in 1..Len(ext[0].items) :
                  collaborators[Len(collaborators) - Len(ext[0].items) + i].args
                    = ext[0].items[i]]_vars

\* the extraction loop of a search() has returned after its second or a
\* later provider call failed: it still holds the items saved in the rounds
\* before, and their records are at the end of the shared collection
C39_Witness ==
    /\ entry = "search"
    /\ pc[0] = "ext_ret"
    /\ ext[0].calls > 1
    /\ ext[0].reported # << >>
    /\ ext[0].items # << >>
    /\ Len(collaborators) >= Len(ext[0].items)
    /\ collaborators[Len(collaborators)].args
         = ext[0].items[Len(ext[0].items)]


\* C37 as stated: in tool-based search a text that arrives with tool calls
\* is appended to the accumulated result and is no text turn (text_turns
\* and the previous length stay, no stop check ends the loop), and after
\* the tool results are fed back the loop always goes on to its next
\* provider call.
C37_ToolTextAlwaysContinues ==
    [][/\ pc[0] = "drv_call" /\ drv'[0].seen.n = drv[0].calls
          /\ drv'[0].seen.kind = "ok" /\ drv'[0].seen.tools > 0
          /\ drv'[0].seen.text.len > 0
          => /\ pc'[0] = "drv_tool"
             /\ drv'[0].acc = Append(drv[0].acc, drv'[0].seen.text)
             /\ drv'[0].text_turns = drv[0].text_turns
             /\ drv'[0].last = drv[0].last
       /\ pc[0] = "drv_tool" /\ pc'[0] # "drv_tool"
          /\ drv[0].seen.text.len > 0
          => /\ pc'[0] = "drv_call"
             /\ drv'[0].calls = drv[0].calls + 1]_vars

\* C37 amended: a text that arrives with tool calls is no text turn
\* (text_turns and the previous length stay, no stop check ends the loop);
\* it is appended to the accumulated result, except that the Chat
\* Completions driver drops a white-space-only text; after the tool results
\* are fed back the loop goes on to its next provider call unless the round
\* was number 3 x max_turns, where the loop ends.
C37_ToolTextIsNoTextTurn ==
    [][/\ pc[0] = "drv_call" /\ drv'[0].seen.n = drv[0].calls
          /\ drv'[0].seen.kind = "ok" /\ drv'[0].seen.tools > 0
          => /\ pc'[0] = "drv_tool"
             /\ drv'[0].acc
                  = IF drv'[0].seen.text.len > 0
                       /\ ~(drv[0].variant = "tool_cc"
                            /\ drv'[0].seen.text.blank)
                    THEN Append(drv[0].acc, drv'[0].seen.text)
                    ELSE drv[0].acc
             /\ drv'[0].text_turns = drv[0].text_turns
             /\ drv'[0].last = drv[0].last
       /\ pc[0] = "drv_tool" /\ pc'[0] # "drv_tool"
          => /\ drv'[0].acc = drv[0].acc
             /\ drv'[0].text_turns = drv[0].text_turns
             /\ drv'[0].last = drv[0].last
             /\ IF drv[0].search_rounds < 3 * drv[0].max_turns
                THEN pc'[0] = "drv_call" /\ drv'[0].calls = drv[0].calls + 1
                ELSE /\ pc'[0] \in {"drv_synth", "drv_ret"}
                     /\ drv[0].acc # << >> => pc'[0] = "drv_ret"]_vars

\* after a round of tool calls whose response also said SEARCH COMPLETE,
\* well after a longer text turn, the loop has issued its next provider
\* call: the text is accumulated and text_turns did not move
C37_Witness ==
    /\ pc[0] = "drv_call"
    /\ drv[0].variant \in ToolVariants
    /\ drv[0].seen.n = drv[0].calls - 1
    /\ drv[0].seen.tools > 0
    /\ HasStopPhrase(drv[0].seen.text)
    /\ drv[0].text_turns = 1
    /\ drv[0].last = 1000
    /\ Len(drv[0].acc) = 2


C31_InterruptStopsNewCalls ==
    [][hist.interrupted
       => /\ \A t \in Threads :
               /\ drv'[t].calls <= drv[t].calls
               /\ ext'[t].calls <= ext[t].calls
               /\ pc[t] = "queued" => pc'[t] = "queued"
          /\ pc[0] # "done" /\ pc'[0] = "done"
             => /\ collaborators' = hist.snapshot
                /\ collaborators' # << >> => ret' = List(hist.snapshot)]_vars

=============================================================================
